---- MODULE Spec2Model ----
(***************************************************************************)
(* A model of the resilient multi-source fetch-and-merge engine of         *)
(* steam-game-data-collector (package gameinsights):                       *)
(*   - BaseSource._make_request, the retrying HTTP GET primitive           *)
(*     (src/gameinsights/sources/base.py);                                 *)
(*   - Collector.get_games_data / Collector._fetch_raw_data, the two-phase *)
(*     aggregator (src/gameinsights/collector.py), with the record         *)
(*     validation of GameDataModel (src/steamgamedata/model/game_data.py). *)
(*   - logged_rate_limited / logged_sleep_and_retry, the rate-limiting     *)
(*     decorators (src/gameinsights/utils/ratelimit.py and                 *)
(*     src/steamgamedata/utils/ratelimit.py);                              *)
(*   - fetch of the adapters SteamSpy, HowLongToBeat, SteamAchievements    *)
(*     (src/gameinsights/sources) and SteamStore                           *)
(*     (src/steamgamedata/sources/steamstore.py) and SteamReview           *)
(*     (src/steamgamedata/sources/steamreview.py);                         *)
(*   - BaseSource._filter_valid_labels, GameDataModel on raw records of    *)
(*     every shape, and the merge loop in any order of the sources.        *)
(* Each part has its own specification (SpecRequest, SpecCollector,        *)
(* SpecRateLimit, SpecRateLimitFair, SpecThreads, SpecSgd, SpecFetch,      *)
(* SpecFilter, SpecValidate, SpecMerge, SpecReview); the variables of the  *)
(* other parts stay at their initial values.                               *)
(***************************************************************************)
EXTENDS Integers, Sequences, FiniteSets, TLC

VARIABLES
    \* ---- BaseSource._make_request ----
    rq_pc,          \* "loop" | "returned" | "raised"
    retries,        \* parameter retries
    backoff_factor, \* parameter backoff_factor, in tenths of a second
    attempts,       \* loop variable of `for attempts in range(1, retries + 2)`
    call_count,     \* number of requests.get invocations so far
    sleeps,         \* the time.sleep durations so far (tenths of a second)
    outcomes,       \* what each requests.get invocation did, in order
    response,       \* the value returned by _make_request
    \* ---- Collector ----
    gd_pc,          \* get_games_data: "start" | "loop" | "done"
    steam_appids,   \* parameter steam_appids: [shape, items]
    recap,          \* parameter recap
    idx,            \* 1-based position of the loop over steam_appids
    result,         \* the list get_games_data returns
    fr_pc,          \* _fetch_raw_data: "idle" | "id" | "name"
    src_idx,        \* position in id_based_sources / name_based_sources
    raw_data,       \* the merged raw record
    fetch_log,      \* the source.fetch calls of the current aggregation
    game_data,      \* what the last _fetch_raw_data returned (NoRecord: raised)
    status          \* how the aggregation of each processed appid ended

VARIABLES
    \* ---- logged_rate_limited ----
    rl_threads,     \* the threads that call the decorated method of one instance
    now,            \* the clock
    calls,          \* the budget the wrapper resolves (argument or self.calls)
    period,         \* the period the wrapper resolves (argument or self.period)
    reconfigs,      \* how many times calls / period were changed
    cache,          \* the instance attribute __logged_rate_limit_cache_<name>
    limiters,       \* every limiter built by limits(), in order of construction
    rl_pc,          \* per thread: "idle" | "wrapper" | "limited" | "sleeping"
    rl_cache,       \* per thread: the local variable cache of wrapper
    rl_lim,         \* per thread: the limiter behind its limited_execution
    rl_wake,        \* per thread: when its time.sleep is over
    rl_sleeps,      \* per thread: sleeps of its current (or last) call
    rl_runs,        \* per thread: runs of the wrapped function in that call
    rl_result,      \* per thread: what that call returned (0: nothing yet)
    started,        \* number of calls of the decorated method so far
    counter,        \* the wrapped function counts its runs and returns the count
    admitted,       \* the runs of the wrapped function, in order
    sleep_calls,    \* the time.sleep durations of the gameinsights decorator
    sg_admitted,    \* steamgamedata decorator: when the wrapped function ran
    sg_sleep_calls, \* steamgamedata decorator: the time.sleep durations
    \* ---- adapter fetch ----
    ft_call,        \* the adapter, the upstream behaviour and selected_labels
    ft_outcome,     \* what fetch did: returned a result or raised
    \* ---- GameDataModel(**raw) ----
    md_raw,         \* the keyword arguments of the constructor
    md_model,       \* the validated model, or the ValidationError raised
    \* ---- merging in another order ----
    mg_order,       \* the order in which the id-keyed sources are processed
    mg_results,     \* what fetch of each source returns
    mg_raw_data     \* the raw record merged in that order

rq_vars == <<rq_pc, retries, backoff_factor, attempts, call_count, sleeps, outcomes, response>>

co_vars == <<gd_pc, steam_appids, recap, idx, result, fr_pc, src_idx, raw_data,
             fetch_log, game_data, status>>

rl_vars == <<rl_threads, now, calls, period, reconfigs, cache, limiters, rl_pc, rl_cache,
             rl_lim, rl_wake, rl_sleeps, rl_runs, rl_result, started, counter, admitted,
             sleep_calls, sg_admitted, sg_sleep_calls>>

ft_vars == <<ft_call, ft_outcome>>

md_vars == <<md_raw, md_model>>

mg_vars == <<mg_order, mg_results, mg_raw_data>>

vars == <<rq_vars, co_vars, rl_vars, ft_vars, md_vars, mg_vars>>

-----------------------------------------------------------------------------
(* Bounds and inputs *)

\* largest value of the parameter `retries` that is explored
MaxRetries == 3

\* values of backoff_factor that are explored, in tenths of a second
\* (0.5 is the default)
BackoffFactors == {0, 5}

\* values of `retries` that are explored; -1 makes range(1, retries + 2) empty
RetriesInputs == (0 - 1)..MaxRetries

-----------------------------------------------------------------------------
(* BaseSource._make_request *)

SYNTHETIC_ERROR_CODE == 599

\* direct base classes of the exception classes requests.get raises
\* (class statements of requests.exceptions, imported by base.py)
Bases(cls) ==
    CASE cls = "ConnectionError"      -> {"RequestException"}
      [] cls = "Timeout"              -> {"RequestException"}
      [] cls = "ConnectTimeout"       -> {"ConnectionError", "Timeout"}
      [] cls = "SSLError"             -> {"ConnectionError"}
      [] cls = "InvalidURL"           -> {"RequestException", "ValueError"}
      [] cls = "TooManyRedirects"     -> {"RequestException"}
      [] cls = "ChunkedEncodingError" -> {"RequestException"}
      [] cls = "RequestException"     -> {"OSError"}
      [] cls = "ValueError"           -> {"Exception"}
      [] cls = "OSError"              -> {"Exception"}
      [] OTHER                        -> {}

\* Python's isinstance(e, target) for an exception e of class cls
RECURSIVE IsInstance(_, _)
IsInstance(cls, target) ==
    \/ cls = target
    \/ \E b \in Bases(cls) : IsInstance(b, target)

exception_to_retry == {"ConnectionError", "Timeout"}

exception_to_abort == {"InvalidURL", "SSLError", "TooManyRedirects"}

\* variant: the final `except RequestException` clause is missing
ExceptClause_NoCatchAll(cls) ==
    IF \E t \in exception_to_retry : IsInstance(cls, t) THEN "retry"
    ELSE IF \E t \in exception_to_abort : IsInstance(cls, t) THEN "abort"
    ELSE "propagate"

\* the except clause that handles an exception of class cls: Python tries the
\* clauses in textual order and takes the first whose classes match
ExceptClause(cls) ==
    IF \E t \in exception_to_retry : IsInstance(cls, t) THEN "retry"
    ELSE IF \E t \in exception_to_abort : IsInstance(cls, t) THEN "abort"
    ELSE IF IsInstance(cls, "RequestException") THEN "unknown"
    ELSE "propagate"

\* exceptions the transport may raise: transient, fatal and unknown
\* RequestExceptions, and one error that is not a network-layer failure
TransportErrors ==
    {"ConnectionError", "Timeout", "ConnectTimeout", "SSLError", "InvalidURL",
     "TooManyRedirects", "ChunkedEncodingError", "ValueError"}

\* HTTP status codes of the real responses that are explored
StatusCodes == {200, 500}

NoResponse == [kind |-> "none", status_code |-> 0, reason |-> [cls |-> "", n |-> 0]]

\* str(e): the message of the error raised by the n-th requests.get invocation
ErrorDescription(cls, n) == [cls |-> cls, n |-> n]

RealResponse(code, n) ==
    [kind |-> "real", status_code |-> code, reason |-> [cls |-> "HTTP", n |-> n]]

\* variant: the reason of the error is not carried over
_create_synthetic_response_NoReason(reason) ==
    [kind |-> "synthetic", status_code |-> SYNTHETIC_ERROR_CODE,
     reason |-> [cls |-> "unexpected request error", n |-> 0]]

_create_synthetic_response(reason) ==
    [kind |-> "synthetic", status_code |-> SYNTHETIC_ERROR_CODE, reason |-> reason]

\* requests.Response.ok: raise_for_status() raises for 400 <= status_code < 600
ResponseOk(r) == ~(r.status_code >= 400 /\ r.status_code < 600)

\* backoff_factor * (2 ** (attempts - 1))
SleepDuration(bf, att) == bf * (2 ^ (att - 1))

\* loop test of `for attempts in range(1, retries + 2)`
InRange(att, r) == att >= 1 /\ att < r + 2

\* variant: the retry test gives up one attempt early
MayRetry_OneLess(att, r) == att < r - 1

\* variant: the retry test allows one more attempt
MayRetry_OneMore(att, r) == att <= r

\* the retry test `attempts < retries`
MayRetry(att, r) == att < r

\* requests.get(...) is invoked and raises an exception of class cls
GetRaises(cls) ==
    /\ rq_pc = "loop"
    /\ InRange(attempts, retries)
    /\ call_count' = call_count + 1
    /\ outcomes' = Append(outcomes, [kind |-> "error", cls |-> cls, status_code |-> 0])

\* requests.get returns a response: _make_request returns it
RequestReturnsResponse ==
    /\ rq_pc = "loop"
    /\ InRange(attempts, retries)
    /\ \E code \in StatusCodes :
         /\ call_count' = call_count + 1
         /\ outcomes' = Append(outcomes, [kind |-> "response", cls |-> "", status_code |-> code])
         /\ response' = RealResponse(code, call_count + 1)
    /\ rq_pc' = "returned"
    /\ UNCHANGED <<retries, backoff_factor, attempts, sleeps>>
    /\ UNCHANGED <<co_vars, rl_vars, ft_vars, md_vars, mg_vars>>

\* except exception_to_retry, attempts < retries: sleep and continue
RequestRetry ==
    /\ \E cls \in TransportErrors :
         /\ ExceptClause(cls) = "retry"
         /\ GetRaises(cls)
    /\ MayRetry(attempts, retries)
    /\ sleeps' = Append(sleeps, SleepDuration(backoff_factor, attempts))
    /\ attempts' = attempts + 1
    /\ UNCHANGED <<rq_pc, retries, backoff_factor, response>>
    /\ UNCHANGED <<co_vars, rl_vars, ft_vars, md_vars, mg_vars>>

\* except exception_to_retry, otherwise: return the synthetic response
RequestExhausted ==
    /\ \E cls \in TransportErrors :
         /\ ExceptClause(cls) = "retry"
         /\ GetRaises(cls)
         /\ response' = _create_synthetic_response(ErrorDescription(cls, call_count + 1))
    /\ ~MayRetry(attempts, retries)
    /\ rq_pc' = "returned"
    /\ UNCHANGED <<retries, backoff_factor, attempts, sleeps>>
    /\ UNCHANGED <<co_vars, rl_vars, ft_vars, md_vars, mg_vars>>

\* except exception_to_abort: return the synthetic response
RequestAbort ==
    /\ \E cls \in TransportErrors :
         /\ ExceptClause(cls) = "abort"
         /\ GetRaises(cls)
         /\ response' = _create_synthetic_response(ErrorDescription(cls, call_count + 1))
    /\ rq_pc' = "returned"
    /\ UNCHANGED <<retries, backoff_factor, attempts, sleeps>>
    /\ UNCHANGED <<co_vars, rl_vars, ft_vars, md_vars, mg_vars>>

\* except RequestException: return the synthetic response
RequestUnknown ==
    /\ \E cls \in TransportErrors :
         /\ ExceptClause(cls) = "unknown"
         /\ GetRaises(cls)
         /\ response' = _create_synthetic_response(ErrorDescription(cls, call_count + 1))
    /\ rq_pc' = "returned"
    /\ UNCHANGED <<retries, backoff_factor, attempts, sleeps>>
    /\ UNCHANGED <<co_vars, rl_vars, ft_vars, md_vars, mg_vars>>

\* no except clause matches: the exception leaves _make_request
RequestPropagate ==
    /\ \E cls \in TransportErrors :
         /\ ExceptClause(cls) = "propagate"
         /\ GetRaises(cls)
    /\ rq_pc' = "raised"
    /\ UNCHANGED <<retries, backoff_factor, attempts, sleeps, response>>
    /\ UNCHANGED <<co_vars, rl_vars, ft_vars, md_vars, mg_vars>>

\* the for loop ends without a return: the statement after the loop
RequestLoopEnds ==
    /\ rq_pc = "loop"
    /\ ~InRange(attempts, retries)
    /\ response' = _create_synthetic_response([cls |-> "unexpected request error", n |-> 0])
    /\ rq_pc' = "returned"
    /\ UNCHANGED <<retries, backoff_factor, attempts, call_count, sleeps, outcomes>>
    /\ UNCHANGED <<co_vars, rl_vars, ft_vars, md_vars, mg_vars>>

-----------------------------------------------------------------------------
(* Values.  A Python value is modelled as a record [src, t, v]: t is its type *)
(* ("none" is None, "str" a string, "int" an integer, "val" a well-typed      *)
(* value of the field it is stored in, "nan"/"list" the schema sentinels),    *)
(* v its text, and src tells which party produced it, so that values coming   *)
(* from different sources differ.                                            *)

NoneValue(src) == [src |-> src, t |-> "none", v |-> ""]

\* variant: the test `is not None` instead of the truth test
Truthy_IsNotNone(val) == val.t # "none"

\* Python's truth test on a value: None and the empty string are false
Truthy(val) == val.t # "none" /\ ~(val.t = "str" /\ val.v = "")

\* str(x)
Str(val) == [val EXCEPT !.t = "str"]

\* dict.get(key, None)
Get(d, key) == IF key \in DOMAIN d THEN d[key] ELSE NoneValue("absent")

\* the empty mapping; also stands for "no value" where a mapping is expected
NoRecord == [f \in {} |-> NoneValue("absent")]

-----------------------------------------------------------------------------
(* Collector._init_sources_config *)

id_based_sources ==
    << [source |-> "steamstore",
        fields |-> <<"steam_appid", "name", "developers", "publishers", "type",
                     "price_currency", "price_initial", "price_final", "categories",
                     "platforms", "genres", "metacritic_score", "release_date",
                     "content_rating">>],
       [source |-> "gamalytic",
        fields |-> <<"average_playtime_h", "copies_sold", "estimated_revenue",
                     "owners", "languages">>],
       [source |-> "steamspy", fields |-> <<"ccu", "tags">>],
       [source |-> "steamcharts",
        fields |-> <<"active_player_24h", "peak_active_player_all_time",
                     "monthly_active_player">>],
       [source |-> "steamreview",
        fields |-> <<"review_score", "review_score_desc", "total_positive",
                     "total_negative", "total_reviews">>],
       [source |-> "steamachievements",
        fields |-> <<"achievements_count", "achievements_percentage_average",
                     "achievements_list">>] >>

name_based_sources ==
    << [source |-> "howlongtobeat",
        fields |-> <<"comp_main", "comp_plus", "comp_100", "comp_all",
                     "comp_main_count", "comp_plus_count", "comp_100_count",
                     "comp_all_count", "invested_co", "invested_mp",
                     "invested_co_count", "invested_mp_count", "count_comp",
                     "count_speedrun", "count_backlog", "count_review",
                     "review_score", "count_playing", "count_retired">>] >>

Range(seq) == {seq[i] : i \in DOMAIN seq}

\* config.fields of the SourceConfig of source s, as a set
DeclaredFields(s) ==
    LET all == id_based_sources \o name_based_sources
        c == CHOOSE c \in Range(all) : c.source = s
    IN Range(c.fields)

-----------------------------------------------------------------------------
(* The adapters' vocabularies: the keys of the data map of a Success *)

STEAM_LABELS ==
    {"steam_appid", "name", "type", "is_free", "developers", "publishers",
     "price_currency", "price_initial", "price_final", "platforms", "categories",
     "genres", "metacritic_score", "recommendations", "achievements",
     "is_coming_soon", "release_date", "content_rating"}

STEAMSPY_LABELS ==
    {"steam_appid", "name", "developers", "publishers", "positive_reviews",
     "negative_reviews", "owners", "average_forever", "average_2weeks",
     "median_forever", "median_2weeks", "price", "initial_price", "discount", "ccu",
     "languages", "genres", "tags"}

STEAMREVIEW_SUMMARY_LABELS ==
    {"review_score", "review_score_desc", "total_positive", "total_negative",
     "total_reviews"}

STEAMACHIEVEMENT_LABELS ==
    {"achievements_count", "achievements_percentage_average", "achievements_list"}

HOWLONGTOBEAT_LABELS ==
    {"game_id", "game_name", "game_type", "comp_main", "comp_plus", "comp_100",
     "comp_all", "comp_main_count", "comp_plus_count", "comp_100_count",
     "comp_all_count", "invested_co", "invested_mp", "invested_co_count",
     "invested_mp_count", "count_comp", "count_speedrun", "count_backlog",
     "count_review", "review_score", "count_playing", "count_retired"}

\* the Gamalytic adapter of gameinsights: its field map covers the fields the
\* Collector declares for it, and the identity of the game
GAMALYTICS_LABELS ==
    {"steam_appid", "name", "average_playtime_h", "copies_sold", "estimated_revenue",
     "owners", "languages"}

\* the SteamCharts adapter of gameinsights: as for Gamalytic
STEAMCHARTS_LABELS ==
    {"steam_appid", "name", "active_player_24h", "peak_active_player_all_time",
     "monthly_active_player"}

\* BaseSource.valid_labels of the adapter named s
valid_labels(s) ==
    CASE s = "steamstore"        -> STEAM_LABELS
      [] s = "gamalytic"         -> GAMALYTICS_LABELS
      [] s = "steamspy"          -> STEAMSPY_LABELS
      [] s = "steamcharts"       -> STEAMCHARTS_LABELS
      [] s = "steamreview"       -> STEAMREVIEW_SUMMARY_LABELS
      [] s = "steamachievements" -> STEAMACHIEVEMENT_LABELS
      [] s = "howlongtobeat"     -> HOWLONGTOBEAT_LABELS

\* The results source.fetch(key) may produce.  kind "success" is a
\* SuccessResult, "failure" an ErrorResult, "raise" an exception leaving fetch.
\* name tells what the data map of the store holds under "name"; complete
\* tells whether the data map covers the whole vocabulary (an adapter that
\* keeps its contract) or lacks the last field declared for the source.
FetchResults(s) ==
    {[kind |-> "failure", name |-> "", complete |-> TRUE],
     [kind |-> "raise", name |-> "", complete |-> TRUE],
     [kind |-> "success", name |-> "text", complete |-> FALSE]}
    \cup {[kind |-> "success", name |-> n, complete |-> TRUE] :
            n \in IF s = "steamstore" THEN {"text", "empty", "none"} ELSE {"text"}}

\* source_data["data"] of a SuccessResult r of source s
SourceData(s, r) ==
    LET c == CHOOSE c \in Range(id_based_sources \o name_based_sources) : c.source = s
        keys == IF r.complete THEN valid_labels(s)
                ELSE valid_labels(s) \ {c.fields[Len(c.fields)]}
    IN [f \in keys |->
          IF f = "name"
          THEN CASE r.name = "none"  -> NoneValue(s)
                 [] r.name = "empty" -> [src |-> s, t |-> "str", v |-> ""]
                 [] OTHER            -> [src |-> s, t |-> "str", v |-> "Mock Game"]
          ELSE [src |-> s, t |-> "val", v |-> f]]

-----------------------------------------------------------------------------
(* GameDataModel *)

SchemaFields ==
    {"steam_appid", "name", "developers", "publishers", "price_currency",
     "price_initial", "price_final", "metacritic_score", "release_date",
     "days_since_release", "average_playtime_h", "average_playtime", "copies_sold",
     "estimated_revenue", "owners", "ccu", "active_player_24h",
     "peak_active_player_all_time", "monthly_active_player", "review_score",
     "review_score_desc", "total_positive", "total_negative", "total_reviews",
     "achievements_count", "achievements_percentage_average", "achievements_list",
     "comp_main", "comp_plus", "comp_100", "comp_all", "comp_main_count",
     "comp_plus_count", "comp_100_count", "comp_all_count", "invested_co",
     "invested_mp", "invested_co_count", "invested_mp_count", "count_comp",
     "count_speed_run", "count_backlog", "count_review", "count_playing",
     "count_retired", "languages", "platforms", "categories", "genres", "tags",
     "content_rating"}

ListFields ==
    {"developers", "publishers", "monthly_active_player", "achievements_list",
     "languages", "platforms", "categories", "genres", "tags", "content_rating"}

FloatFields ==
    {"price_initial", "price_final", "average_playtime_h", "review_score",
     "achievements_percentage_average"}

\* fields declared with exclude=True
ExcludedFields == {"average_playtime_h"}

\* the Field(default=...) of a schema field
FieldDefault(f) ==
    IF f \in ListFields THEN [src |-> "default", t |-> "list", v |-> ""]
    ELSE IF f \in FloatFields THEN [src |-> "default", t |-> "nan", v |-> ""]
    ELSE NoneValue("default")

\* fields listed in the handle_integers validator
IntegerFields ==
    {"metacritic_score", "copies_sold", "estimated_revenue", "owners", "ccu",
     "active_player_24h", "peak_active_player_all_time", "review_score",
     "total_positive", "total_negative", "total_reviews", "achievements_count",
     "comp_main", "comp_plus", "comp_100", "comp_all", "comp_main_count",
     "comp_plus_count", "comp_100_count", "comp_all_count", "invested_co",
     "invested_mp", "invested_co_count", "invested_mp_count", "count_comp",
     "count_speed_run", "count_backlog", "count_review", "count_playing",
     "count_retired"}

\* fields annotated int | None that no field validator lists
PlainIntFields == {"days_since_release", "average_playtime"}

\* fields annotated list[dict[str, Any]]
DictListFields == {"monthly_active_player", "achievements_list", "content_rating"}

\* A number additionally carries its magnitude n: units for an int,
\* thousandths for a float or a numeric text, seconds since the epoch for a
\* datetime.
Number(src, t, text, n) == [src |-> src, t |-> t, v |-> text, n |-> n]

NaN(src) == [src |-> src, t |-> "nan", v |-> ""]

\* what a validator does: it returns a value or raises an exception
Ok(val) == [raises |-> "", val |-> val]

Raise(cls) == [raises |-> cls, val |-> NoneValue("raised")]

\* int(x) of a number in thousandths: truncation toward zero
Trunc(n) == IF n >= 0 THEN n \div 1000 ELSE -((-n) \div 1000)

\* handle_integers: None is kept; int(v), and None on ValueError (a text that
\* is no integer literal, NaN) or TypeError (a list); int(inf) raises
\* OverflowError, which the except clause does not name
handle_integers(val) ==
    CASE val.t \in {"none", "int", "val"} -> Ok(val)
      [] val.t = "float" -> Ok(Number(val.src, "int", "", Trunc(val.n)))
      [] val.t = "numstr" /\ val.n % 1000 = 0 -> Ok(Number(val.src, "int", "", val.n \div 1000))
      [] val.t = "inf" -> Raise("OverflowError")
      [] OTHER -> Ok(NoneValue(val.src))

\* handle_float: NaN for None; float(v), and NaN on ValueError or TypeError
handle_float(val) ==
    CASE val.t \in {"val", "nan", "inf"} -> Ok(val)
      [] val.t = "int" -> Ok(Number(val.src, "float", "", val.n * 1000))
      [] val.t \in {"float", "numstr"} -> Ok(Number(val.src, "float", "", val.n))
      [] OTHER -> Ok(NaN(val.src))

\* datetime.strptime(v, "%b %d, %Y"): seconds since the epoch of the day named
strptime(text) ==
    CASE text = "Jan 1, 2025" -> 20089 * 86400
      [] text = "Jan 2, 2026" -> 20455 * 86400

\* parse_release_date: None and a datetime are kept; a text is parsed, a
\* number is a timestamp, and ValueError gives None; fromtimestamp(inf)
\* raises OverflowError, which is not caught; any other type falls through
\* the try block, which returns None
parse_release_date(val) ==
    CASE val.t \in {"none", "datetime", "val"} -> Ok(val)
      [] val.t = "datestr" -> Ok(Number(val.src, "datetime", "", strptime(val.v)))
      [] val.t = "int" -> Ok(Number(val.src, "datetime", "", val.n))
      [] val.t = "float" -> Ok(Number(val.src, "datetime", "", Trunc(val.n)))
      [] val.t = "inf" -> Raise("OverflowError")
      [] OTHER -> Ok(NoneValue(val.src))

\* ensure_string: "" if v is None else str(v)
ensure_string(val) ==
    IF val.t = "none" THEN [src |-> val.src, t |-> "str", v |-> ""] ELSE Str(val)

\* ensure_list: [] for None, a list is kept, any other value v becomes [v]
ensure_list(val) ==
    CASE val.t = "none" -> [src |-> val.src, t |-> "list", v |-> ""]
      [] val.t \in {"list", "val"} -> val
      [] OTHER -> [src |-> val.src, t |-> "list", v |-> val.t]

\* pydantic's validation of int | None (lax mode) after the field validators
CoreInt(val) ==
    CASE val.t \in {"none", "int", "val"} -> Ok(val)
      [] val.t \in {"float", "numstr"} /\ val.n % 1000 = 0 ->
            Ok(Number(val.src, "int", "", val.n \div 1000))
      [] OTHER -> Raise("ValidationError")

\* pydantic's validation of float (lax mode): None is no float
CoreFloat(val) ==
    CASE val.t \in {"float", "nan", "inf", "val"} -> Ok(val)
      [] val.t = "int" -> Ok(Number(val.src, "float", "", val.n * 1000))
      [] val.t = "numstr" -> Ok(Number(val.src, "float", "", val.n))
      [] OTHER -> Raise("ValidationError")

\* pydantic's validation of str | None: only None and a text pass
CoreStr(val) ==
    IF val.t \in {"none", "str", "numstr", "datestr", "val"} THEN Ok(val)
    ELSE Raise("ValidationError")

\* pydantic's validation of list[str] and list[dict[str, Any]] on what
\* ensure_list returned: the wrapped value has to be of the item type
CoreList(f, val) ==
    IF val.t = "val" \/ val.v = "" \/ (f \notin DictListFields /\ val.v \in {"str", "numstr", "datestr"})
    THEN Ok(val) ELSE Raise("ValidationError")

\* One field of GameDataModel(**raw): its mode="before" validators, the last
\* defined first, then pydantic's validation of the annotated type.
\* review_score is listed by handle_integers and by handle_float.
FieldOutcome(f, val) ==
    CASE f \in {"steam_appid", "name"} -> Ok(ensure_string(val))
      [] f = "release_date" -> parse_release_date(val)
      [] f \in ListFields -> CoreList(f, ensure_list(val))
      [] f = "review_score" ->
            LET as_int == handle_integers(handle_float(val).val)
            IN IF as_int.raises # "" THEN as_int ELSE CoreFloat(as_int.val)
      [] f \in FloatFields \ {"review_score"} -> CoreFloat(handle_float(val).val)
      [] f \in IntegerFields \ {"review_score"} ->
            LET as_int == handle_integers(val)
            IN IF as_int.raises # "" THEN as_int ELSE CoreInt(as_int.val)
      [] f \in PlainIntFields -> CoreInt(val)
      [] OTHER -> CoreStr(val)

\* the value a field takes when its validation does not raise
FieldValidator(f, val) == FieldOutcome(f, val).val

\* int(h * 3600) of a number of hours in thousandths
Seconds(n) ==
    LET a == IF n >= 0 THEN n ELSE -n
        s == (a \div 1000) * 3600 + ((a % 1000) * 3600) \div 1000
    IN IF n >= 0 THEN s ELSE -s

\* datetime.now(), in seconds since the epoch
Now == 20454 * 86400 + 3600

\* variant: a derived field that the raw record gave is not computed again
Derived_KeepGiven(origin, rec, f) ==
    CASE rec[origin].t \in {"none", "nan"} \/ rec[f].t # "none" -> rec[f]
      [] rec[origin].t = "float" ->
            Number("derived", "int", "", Seconds(rec[origin].n))
      [] rec[origin].t = "datetime" ->
            Number("derived", "int", "", (Now - rec[origin].n) \div 86400)
      [] OTHER -> [src |-> "derived", t |-> "val", v |-> f]

\* compute_average_playtime / compute_days_since_release: the derived field
\* is set when the field it derives from holds a value
Derived(origin, rec, f) ==
    CASE rec[origin].t \in {"none", "nan"} -> rec[f]
      [] rec[origin].t = "float" ->
            Number("derived", "int", "", Seconds(rec[origin].n))
      [] rec[origin].t = "datetime" ->
            Number("derived", "int", "", (Now - rec[origin].n) \div 86400)
      [] OTHER -> [src |-> "derived", t |-> "val", v |-> f]

\* preprocess_data, the mode="after" model validator
preprocess_data(rec) ==
    [rec EXCEPT !["average_playtime"] = Derived("average_playtime_h", rec, "average_playtime"),
                !["days_since_release"] = Derived("release_date", rec, "days_since_release")]

\* int(average_playtime_h * 3600) raises OverflowError on an infinite value
preprocess_raises(rec) == rec["average_playtime_h"].t = "inf"

\* the fields as validated one by one, before preprocess_data
Validated(raw) ==
    [f \in SchemaFields |->
        IF f \in DOMAIN raw THEN FieldValidator(f, raw[f]) ELSE FieldDefault(f)]

\* the exception GameDataModel(**raw) raises, "" when it returns a model: an
\* exception that is no ValueError leaves the validation at once; the
\* ValidationError collects a missing steam_appid and the fields that fail
ModelRaises(raw) ==
    LET given == DOMAIN raw \cap SchemaFields
    IN IF \E f \in given : FieldOutcome(f, raw[f]).raises = "OverflowError"
       THEN "OverflowError"
       ELSE IF "steam_appid" \notin DOMAIN raw
               \/ \E f \in given : FieldOutcome(f, raw[f]).raises = "ValidationError"
       THEN "ValidationError"
       ELSE IF preprocess_raises(Validated(raw)) THEN "OverflowError"
       ELSE ""

\* GameDataModel(**raw): NoRecord stands for the exception raised; keys that
\* are no schema field are ignored
GameDataModel(raw) ==
    IF ModelRaises(raw) # "" THEN NoRecord ELSE preprocess_data(Validated(raw))

\* variant: a dump that keeps the excluded field
model_dump_All(rec) == [f \in SchemaFields |-> rec[f]]

\* model_dump(): the fields that are not excluded
model_dump(rec) == [f \in SchemaFields \ ExcludedFields |-> rec[f]]

RecapFields ==
    {"steam_appid", "name", "developers", "publishers", "release_date",
     "days_since_release", "price_currency", "price_initial", "price_final",
     "copies_sold", "estimated_revenue", "owners", "total_positive",
     "total_negative", "total_reviews", "comp_main", "comp_plus", "comp_100",
     "comp_all", "invested_co", "invested_mp", "average_playtime", "active_player_24h",
     "peak_active_player_all_time", "achievements_count",
     "achievements_percentage_average", "categories", "genres", "tags"}

get_recap(rec) == [f \in RecapFields |-> rec[f]]

-----------------------------------------------------------------------------
(* Collector.get_games_data and Collector._fetch_raw_data *)

K1 == [src |-> "caller", t |-> "str", v |-> "12345"]

K2 == [src |-> "caller", t |-> "int", v |-> "67890"]

EmptyKey == [src |-> "caller", t |-> "str", v |-> ""]

\* the values of steam_appids that are explored: a bare appid, an empty one,
\* and lists (the shapes of test_get_games_data, and a list of two games)
AppidInputs ==
    {[shape |-> "scalar", items |-> <<K1>>],
     [shape |-> "scalar", items |-> <<EmptyKey>>],
     [shape |-> "list", items |-> <<>>],
     [shape |-> "list", items |-> <<K1, K1>>],
     [shape |-> "list", items |-> <<K1, K2>>]}

\* `not steam_appids`
NotAppids(a) ==
    IF a.shape = "list" THEN a.items = <<>> ELSE ~Truthy(a.items[1])

\* {key: source_data["data"][key] for key in config.fields} can be built
HasAll(data, fields) == Range(fields) \subseteq DOMAIN data

\* variant: raw_data is replaced by the fields of the source
Merge_Replace(raw, data, fields) == [f \in Range(fields) |-> data[f]]

\* raw_data.update({key: source_data["data"][key] for key in config.fields})
Merge(raw, data, fields) ==
    [f \in DOMAIN raw \cup Range(fields) |->
        IF f \in Range(fields) THEN data[f] ELSE raw[f]]

\* variant: source_data["data"] is read without the test of
\* source_data["success"], which raises KeyError on an ErrorResult
Aborts_NoSuccessTest(config, r) ==
    \/ r.kind # "success"
    \/ r.kind = "success" /\ ~HasAll(SourceData(config.source, r), config.fields)

\* an exception leaves the loop body `source_data = fetch(...); if
\* source_data["success"]: raw_data.update(...)`: fetch raised, or a declared
\* field is no key of the data of a Success
Aborts(config, r) ==
    \/ r.kind = "raise"
    \/ r.kind = "success" /\ ~HasAll(SourceData(config.source, r), config.fields)

\* variant: the except branch appends a record that holds only the appid
ExceptBranch_AppendsMinimal ==
    /\ status' = Append(status, "raised")
    /\ game_data' = NoRecord
    /\ result' = Append(result, model_dump(GameDataModel(
                      [f \in {"steam_appid"} |-> Str(steam_appids.items[idx])])))
    /\ idx' = idx + 1
    /\ fr_pc' = "idle"
    /\ UNCHANGED <<raw_data, src_idx>>

\* the except branch of get_games_data: the error is logged, nothing is
\* appended, the loop goes on with the next appid
ExceptBranch ==
    /\ status' = Append(status, "raised")
    /\ game_data' = NoRecord
    /\ idx' = idx + 1
    /\ fr_pc' = "idle"
    /\ UNCHANGED <<result, raw_data, src_idx>>

\* one pass of a loop over SourceConfigs: fetch, and merge on Success
SourceStep(config, key, phase, r, next_pc, next_idx) ==
    /\ fetch_log' = Append(fetch_log,
                           [source |-> config.source, key |-> key, phase |-> phase, result |-> r])
    /\ IF Aborts(config, r)
       THEN ExceptBranch
       ELSE /\ raw_data' = IF r.kind = "success"
                           THEN Merge(raw_data, SourceData(config.source, r), config.fields)
                           ELSE raw_data
            /\ fr_pc' = next_pc
            /\ src_idx' = next_idx
            /\ UNCHANGED <<idx, result, status, game_data>>

\* entry of get_games_data: the early return and the normalisation to a list
GamesDataStart ==
    /\ gd_pc = "start"
    /\ IF NotAppids(steam_appids)
       THEN /\ gd_pc' = "done"
            /\ UNCHANGED steam_appids
       ELSE /\ gd_pc' = "loop"
            /\ steam_appids' = [steam_appids EXCEPT !.shape = "list"]
    /\ UNCHANGED <<recap, idx, result, fr_pc, src_idx, raw_data, fetch_log, game_data, status>>
    /\ UNCHANGED <<rq_vars, rl_vars, ft_vars, md_vars, mg_vars>>

\* _fetch_raw_data is entered for the next appid (its rate limiter admits
\* the call: the budget is 60 calls per 60 seconds)
FetchRawDataBegin ==
    /\ gd_pc = "loop"
    /\ fr_pc = "idle"
    /\ idx <= Len(steam_appids.items)
    /\ raw_data' = [f \in {"steam_appid"} |-> Str(steam_appids.items[idx])]
    /\ fetch_log' = <<>>
    /\ src_idx' = 1
    /\ fr_pc' = "id"
    /\ UNCHANGED <<gd_pc, steam_appids, recap, idx, result, game_data, status>>
    /\ UNCHANGED <<rq_vars, rl_vars, ft_vars, md_vars, mg_vars>>

\* variant: the loop over the id-keyed sources stops at the first Failure
FetchIdBased_BreakOnFailure ==
    /\ fr_pc = "id"
    /\ src_idx <= Len(id_based_sources)
    /\ \E r \in FetchResults(id_based_sources[src_idx].source) :
         SourceStep(id_based_sources[src_idx], steam_appids.items[idx], "id", r,
                    IF src_idx = Len(id_based_sources) \/ r.kind = "failure"
                    THEN "name" ELSE "id",
                    IF src_idx = Len(id_based_sources) \/ r.kind = "failure"
                    THEN 1 ELSE src_idx + 1)
    /\ UNCHANGED <<gd_pc, steam_appids, recap>>
    /\ UNCHANGED <<rq_vars, rl_vars, ft_vars, md_vars, mg_vars>>

\* for config in self.id_based_sources
FetchIdBased ==
    /\ fr_pc = "id"
    /\ src_idx <= Len(id_based_sources)
    /\ \E r \in FetchResults(id_based_sources[src_idx].source) :
         SourceStep(id_based_sources[src_idx], steam_appids.items[idx], "id", r,
                    IF src_idx = Len(id_based_sources) THEN "name" ELSE "id",
                    IF src_idx = Len(id_based_sources) THEN 1 ELSE src_idx + 1)
    /\ UNCHANGED <<gd_pc, steam_appids, recap>>
    /\ UNCHANGED <<rq_vars, rl_vars, ft_vars, md_vars, mg_vars>>

\* game_name = raw_data.get("name", None); if game_name:
\*     for config in self.name_based_sources
FetchNameBased ==
    /\ fr_pc = "name"
    /\ Truthy(Get(raw_data, "name"))
    /\ src_idx <= Len(name_based_sources)
    /\ \E r \in FetchResults(name_based_sources[src_idx].source) :
         SourceStep(name_based_sources[src_idx], Get(raw_data, "name"), "name", r,
                    "name", src_idx + 1)
    /\ UNCHANGED <<gd_pc, steam_appids, recap>>
    /\ UNCHANGED <<rq_vars, rl_vars, ft_vars, md_vars, mg_vars>>

\* variant: a record that holds nothing but the appid is not appended
FetchRawDataReturn_OmitEmpty ==
    /\ fr_pc = "name"
    /\ ~Truthy(Get(raw_data, "name")) \/ src_idx > Len(name_based_sources)
    /\ IF GameDataModel(raw_data) = NoRecord
       THEN ExceptBranch
       ELSE /\ game_data' = GameDataModel(raw_data)
            /\ result' = IF DOMAIN raw_data = {"steam_appid"} THEN result
                          ELSE Append(result, IF recap THEN get_recap(GameDataModel(raw_data))
                                              ELSE model_dump(GameDataModel(raw_data)))
            /\ status' = Append(status, "ok")
            /\ idx' = idx + 1
            /\ fr_pc' = "idle"
            /\ UNCHANGED <<raw_data, src_idx>>
    /\ UNCHANGED <<gd_pc, steam_appids, recap, fetch_log>>
    /\ UNCHANGED <<rq_vars, rl_vars, ft_vars, md_vars, mg_vars>>

\* return GameDataModel(**raw_data), and the rest of the try body of
\* get_games_data: the payload is appended to result
FetchRawDataReturn ==
    /\ fr_pc = "name"
    /\ ~Truthy(Get(raw_data, "name")) \/ src_idx > Len(name_based_sources)
    /\ IF GameDataModel(raw_data) = NoRecord
       THEN ExceptBranch
       ELSE /\ game_data' = GameDataModel(raw_data)
            /\ result' = Append(result, IF recap THEN get_recap(GameDataModel(raw_data))
                                        ELSE model_dump(GameDataModel(raw_data)))
            /\ status' = Append(status, "ok")
            /\ idx' = idx + 1
            /\ fr_pc' = "idle"
            /\ UNCHANGED <<raw_data, src_idx>>
    /\ UNCHANGED <<gd_pc, steam_appids, recap, fetch_log>>
    /\ UNCHANGED <<rq_vars, rl_vars, ft_vars, md_vars, mg_vars>>

\* the loop over steam_appids is over: return result
GamesDataReturn ==
    /\ gd_pc = "loop"
    /\ fr_pc = "idle"
    /\ idx > Len(steam_appids.items)
    /\ gd_pc' = "done"
    /\ UNCHANGED <<steam_appids, recap, idx, result, fr_pc, src_idx, raw_data, fetch_log,
                   game_data, status>>
    /\ UNCHANGED <<rq_vars, rl_vars, ft_vars, md_vars, mg_vars>>

-----------------------------------------------------------------------------
(* Rate limiting: gameinsights.utils.ratelimit and steamgamedata.utils.ratelimit *)

\* Time is a discrete clock.  Running the code of a call takes no time: the
\* clock advances only while every thread is between calls or inside
\* time.sleep.

\* largest budget `calls` that is explored
MaxBudget == 2

\* largest `period` that is explored, in clock units
MaxPeriod == 3

\* the clock is advanced freely up to MaxTime (a sleep may carry it further)
MaxTime == 2

\* number of calls of the decorated method that are explored
MaxStarted == 4

\* number of times the owner changes calls / period
MaxReconfigs == 1

\* limit on the sleeps of one call that are explored
MaxSleeps == 4

BudgetInputs == 1..MaxBudget

PeriodInputs == 2..MaxPeriod

\* getattr(self, cache_attr, None) before the first call
NoCache == [calls |-> 0, period |-> 0, limited |-> 0]

\* ratelimit.limits: clamped_calls = max(1, min(sys.maxsize, floor(calls)))
Clamp(c) == IF c < 1 THEN 1 ELSE c

\* ratelimit.limits(calls, period): the decorator object built at time t
NewLimiter(c, p, t) ==
    [calls |-> c, clamped_calls |-> Clamp(c), period |-> p, last_reset |-> t,
     num_calls |-> 0]

\* ratelimit: period - (clock() - last_reset)
period_remaining(L, t) == L.period - (t - L.last_reset)

\* a variant of the limiter whose window is never restarted
LimiterStep_NoReset(L, t) == [L EXCEPT !.num_calls = @ + 1]

\* ratelimit: one pass through the limiter at time t, under its lock: the
\* window restarts when it has elapsed, then the attempt is counted
LimiterStep(L, t) ==
    IF period_remaining(L, t) <= 0
    THEN [L EXCEPT !.num_calls = 1, !.last_reset = t]
    ELSE [L EXCEPT !.num_calls = @ + 1]

\* a variant that rejects one attempt early
Rejected_OneEarly(L) == L.num_calls >= L.clamped_calls

\* ratelimit: RateLimitException is raised when the count exceeds the budget
Rejected(L) == L.num_calls > L.clamped_calls

\* a variant of the cache test that overlooks a changed period
CacheStale_CallsOnly(c, actual_calls, actual_period) ==
    \/ c = NoCache
    \/ c.calls # actual_calls

\* wrapper: the cached limiter is missing or was built for another budget
CacheStale(c, actual_calls, actual_period) ==
    \/ c = NoCache
    \/ c.calls # actual_calls
    \/ c.period # actual_period

AllIn(pcs) == \A t \in rl_threads : rl_pc[t] \in pcs

\* the clock advances
Tick ==
    /\ AllIn({"idle", "sleeping"})
    /\ \/ now < MaxTime
       \/ \E t \in rl_threads : rl_pc[t] = "sleeping" /\ rl_wake[t] > now
    /\ now' = now + 1
    /\ UNCHANGED <<rl_threads, calls, period, reconfigs, cache, limiters, rl_pc, rl_cache,
                   rl_lim, rl_wake, rl_sleeps, rl_runs, rl_result, started, counter,
                   admitted, sleep_calls, sg_admitted, sg_sleep_calls>>
    /\ UNCHANGED <<rq_vars, co_vars, ft_vars, md_vars, mg_vars>>

\* the owner of the instance assigns a new calls / period between two calls
Reconfigure ==
    /\ AllIn({"idle"})
    /\ rl_threads # {}
    /\ reconfigs < MaxReconfigs
    /\ \E c \in BudgetInputs, p \in PeriodInputs :
          /\ <<c, p>> # <<calls, period>>
          /\ calls' = c
          /\ period' = p
    /\ reconfigs' = reconfigs + 1
    /\ UNCHANGED <<rl_threads, now, cache, limiters, rl_pc, rl_cache, rl_lim, rl_wake,
                   rl_sleeps, rl_runs, rl_result, started, counter, admitted,
                   sleep_calls, sg_admitted, sg_sleep_calls>>
    /\ UNCHANGED <<rq_vars, co_vars, ft_vars, md_vars, mg_vars>>

\* wrapper, up to `cache = getattr(self, cache_attr, None)`
WrapperEnter(t) ==
    /\ rl_pc[t] = "idle"
    /\ started < MaxStarted
    /\ started' = started + 1
    /\ rl_pc' = [rl_pc EXCEPT ![t] = "wrapper"]
    /\ rl_cache' = [rl_cache EXCEPT ![t] = cache]
    /\ rl_sleeps' = [rl_sleeps EXCEPT ![t] = 0]
    /\ rl_runs' = [rl_runs EXCEPT ![t] = 0]
    /\ rl_result' = [rl_result EXCEPT ![t] = 0]
    /\ UNCHANGED <<rl_threads, now, calls, period, reconfigs, cache, limiters, rl_lim,
                   rl_wake, counter, admitted, sleep_calls, sg_admitted, sg_sleep_calls>>
    /\ UNCHANGED <<rq_vars, co_vars, ft_vars, md_vars, mg_vars>>

\* wrapper: the cache read is stale, a limiter is built and stored
WrapperBuild(t) ==
    /\ rl_pc[t] = "wrapper"
    /\ CacheStale(rl_cache[t], calls, period)
    /\ limiters' = Append(limiters, NewLimiter(calls, period, now))
    /\ cache' = [calls |-> calls, period |-> period, limited |-> Len(limiters) + 1]
    /\ rl_lim' = [rl_lim EXCEPT ![t] = Len(limiters) + 1]
    /\ rl_pc' = [rl_pc EXCEPT ![t] = "limited"]
    /\ UNCHANGED <<rl_threads, now, calls, period, reconfigs, rl_cache, rl_wake, rl_sleeps,
                   rl_runs, rl_result, started, counter, admitted, sleep_calls,
                   sg_admitted, sg_sleep_calls>>
    /\ UNCHANGED <<rq_vars, co_vars, ft_vars, md_vars, mg_vars>>

\* wrapper: the cache read is current, its limiter is used
WrapperReuse(t) ==
    /\ rl_pc[t] = "wrapper"
    /\ ~CacheStale(rl_cache[t], calls, period)
    /\ rl_lim' = [rl_lim EXCEPT ![t] = rl_cache[t].limited]
    /\ rl_pc' = [rl_pc EXCEPT ![t] = "limited"]
    /\ UNCHANGED <<rl_threads, now, calls, period, reconfigs, cache, limiters, rl_cache,
                   rl_wake, rl_sleeps, rl_runs, rl_result, started, counter, admitted,
                   sleep_calls, sg_admitted, sg_sleep_calls>>
    /\ UNCHANGED <<rq_vars, co_vars, ft_vars, md_vars, mg_vars>>

\* logged_sleep_and_retry: the limiter lets the attempt through, the wrapped
\* function runs and its result is returned
LimitedAdmit(t) ==
    /\ rl_pc[t] = "limited"
    /\ LET L == LimiterStep(limiters[rl_lim[t]], now)
       IN /\ ~Rejected(L)
          /\ limiters' = [limiters EXCEPT ![rl_lim[t]] = L]
    /\ counter' = counter + 1
    /\ admitted' = Append(admitted, [time |-> now, limiter |-> rl_lim[t], thread |-> t,
                                     value |-> counter + 1, calls |-> calls,
                                     period |-> period, epoch |-> reconfigs])
    /\ rl_runs' = [rl_runs EXCEPT ![t] = @ + 1]
    /\ rl_result' = [rl_result EXCEPT ![t] = counter + 1]
    /\ rl_pc' = [rl_pc EXCEPT ![t] = "idle"]
    /\ UNCHANGED <<rl_threads, now, calls, period, reconfigs, cache, rl_cache, rl_lim,
                   rl_wake, rl_sleeps, started, sleep_calls, sg_admitted, sg_sleep_calls>>
    /\ UNCHANGED <<rq_vars, co_vars, ft_vars, md_vars, mg_vars>>

\* logged_sleep_and_retry: the limiter raises RateLimitException and the call
\* enters time.sleep(e.period_remaining)
LimitedReject(t) ==
    /\ rl_pc[t] = "limited"
    /\ rl_sleeps[t] < MaxSleeps
    /\ LET L == LimiterStep(limiters[rl_lim[t]], now)
           d == period_remaining(limiters[rl_lim[t]], now)
       IN /\ Rejected(L)
          /\ limiters' = [limiters EXCEPT ![rl_lim[t]] = L]
          /\ sleep_calls' = Append(sleep_calls, d)
          /\ rl_wake' = [rl_wake EXCEPT ![t] = now + d]
    /\ rl_sleeps' = [rl_sleeps EXCEPT ![t] = @ + 1]
    /\ rl_pc' = [rl_pc EXCEPT ![t] = "sleeping"]
    /\ UNCHANGED <<rl_threads, now, calls, period, reconfigs, cache, rl_cache, rl_lim,
                   rl_runs, rl_result, started, counter, admitted, sg_admitted,
                   sg_sleep_calls>>
    /\ UNCHANGED <<rq_vars, co_vars, ft_vars, md_vars, mg_vars>>

\* logged_sleep_and_retry: time.sleep returns and the loop tries again
SleepReturns(t) ==
    /\ rl_pc[t] = "sleeping"
    /\ now >= rl_wake[t]
    /\ rl_pc' = [rl_pc EXCEPT ![t] = "limited"]
    /\ UNCHANGED <<rl_threads, now, calls, period, reconfigs, cache, limiters, rl_cache,
                   rl_lim, rl_wake, rl_sleeps, rl_runs, rl_result, started, counter,
                   admitted, sleep_calls, sg_admitted, sg_sleep_calls>>
    /\ UNCHANGED <<rq_vars, co_vars, ft_vars, md_vars, mg_vars>>

\* the steps of a call that is under way
CallStep(t) ==
    \/ WrapperBuild(t)
    \/ WrapperReuse(t)
    \/ LimitedAdmit(t)
    \/ LimitedReject(t)
    \/ SleepReturns(t)

\* steamgamedata wrapper: every call decorates a new limited_execution with
\* limits(calls, period) and calls it at once
SgdFetch ==
    /\ rl_threads = {}
    /\ Len(sg_admitted) < MaxStarted
    /\ LET fresh == NewLimiter(calls, period, now)
           L == LimiterStep(fresh, now)
           d == IF Rejected(L) THEN period_remaining(fresh, now) ELSE 0
       IN /\ sg_sleep_calls' = IF Rejected(L) THEN Append(sg_sleep_calls, d)
                               ELSE sg_sleep_calls
          /\ now' = now + d
          /\ sg_admitted' = Append(sg_admitted, now + d)
    /\ UNCHANGED <<rl_threads, calls, period, reconfigs, cache, limiters, rl_pc, rl_cache,
                   rl_lim, rl_wake, rl_sleeps, rl_runs, rl_result, started, counter,
                   admitted, sleep_calls>>
    /\ UNCHANGED <<rq_vars, co_vars, ft_vars, md_vars, mg_vars>>

-----------------------------------------------------------------------------
(* Adapter fetch: gameinsights SteamSpy, HowLongToBeat and SteamAchievements, *)
(* and steamgamedata SteamStore.  ft_call holds the adapter, what the        *)
(* upstream does and selected_labels; ft_outcome is what fetch did.          *)

\* selected_labels: None, or a list of labels
NoSelection == [given |-> FALSE, labels |-> <<>>]

Selection(labels) == [given |-> TRUE, labels |-> labels]

\* the values of selected_labels that are explored, around two valid labels
SelectedInputs(a, b) ==
    {NoSelection, Selection(<<>>), Selection(<<a>>), Selection(<<a, "invalid_label">>),
     Selection(<<b, a, "invalid_label">>), Selection(<<"invalid_label">>)}

\* a variant of the truth test that takes the empty list for a selection
TruthyList_IsNotNone(sel) == sel.given

\* `if selected_labels:` is false for None and for the empty list
TruthyList(sel) == sel.given /\ sel.labels # <<>>

\* a variant that drops nothing
_filter_valid_labels_KeepAll(selected_labels, validation_set) == selected_labels

\* gameinsights BaseSource._filter_valid_labels: the selected labels that are
\* in the validation set, in the order given
_filter_valid_labels(selected_labels, validation_set) ==
    SelectSeq(selected_labels, LAMBDA label : label \in validation_set)

\* steamgamedata BaseSource._filter_valid_labels: the loop runs over
\* validation_set, so every valid label is returned whatever was selected
sgd_filter_valid_labels(selected_labels, validation_set) == validation_set

SuccessResult(data) == [success |-> TRUE, data |-> data]

\* a variant that also carries an (empty) data map
_build_error_result_WithData(error_message) ==
    [success |-> FALSE, error |-> error_message, data |-> NoRecord]

_build_error_result(error_message) == [success |-> FALSE, error |-> error_message]

FetchReturns(r) == [kind |-> "returned", result |-> r, exc |-> ""]

FetchRaises(exc) == [kind |-> "raised", result |-> NoRecord, exc |-> exc]

\* f"...{response.status_code}"
StatusText(code) ==
    CASE code = 200 -> "200"
      [] code = 400 -> "400"
      [] code = 403 -> "403"
      [] code = 500 -> "500"
      [] code = SYNTHETIC_ERROR_CODE -> "599"

\* a well-typed upstream value stored under key k
Upstream(src, k) == [src |-> src, t |-> "val", v |-> k]

\* the responses _make_request hands to a gameinsights adapter: real ones, and
\* the synthetic one, whose content is empty
MakeRequestResponses(bodies) ==
    {[status_code |-> c, body |-> b] : c \in {200, 400}, b \in bodies}
        \cup {[status_code |-> SYNTHETIC_ERROR_CODE, body |-> "empty"]}

\* ---- SteamSpy ----

\* SteamSpy._transform_data: the key of the upstream object behind each label
SteamSpyKeys ==
    [steam_appid |-> "appid", name |-> "name", developers |-> "developer",
     publishers |-> "publisher", positive_reviews |-> "positive",
     negative_reviews |-> "negative", owners |-> "owners",
     average_forever |-> "average_forever", average_2weeks |-> "average_2weeks",
     median_forever |-> "median_forever", median_2weeks |-> "median_2weeks",
     price |-> "price", initial_price |-> "initialprice", discount |-> "discount",
     ccu |-> "ccu", languages |-> "languages", genres |-> "genre", tags |-> "tags"]

SteamSpyBodies == {"invalid", "list", "full", "not_found", "unexpected", "empty_object"}

\* response.json() of a SteamSpy body: ok is FALSE when decoding raises
SteamSpyJson(body) ==
    LET keys == {SteamSpyKeys[l] : l \in DOMAIN SteamSpyKeys}
        full == [k \in keys |->
                   IF k = "tags" THEN [src |-> "steamspy", t |-> "dict", v |-> k]
                   ELSE Upstream("steamspy", k)]
    IN CASE body \in {"invalid", "empty"} -> [ok |-> FALSE, shape |-> "", obj |-> NoRecord]
         [] body = "list" -> [ok |-> TRUE, shape |-> "list", obj |-> NoRecord]
         [] body = "full" -> [ok |-> TRUE, shape |-> "object", obj |-> full]
         [] body = "not_found" ->
              [ok |-> TRUE, shape |-> "object",
               obj |-> [full EXCEPT !["name"] = NoneValue("steamspy")]]
         [] body = "unexpected" ->
              [ok |-> TRUE, shape |-> "object",
               obj |-> [full EXCEPT !["tags"] = [src |-> "steamspy", t |-> "list", v |-> "tags"]]]
         [] body = "empty_object" -> [ok |-> TRUE, shape |-> "object", obj |-> NoRecord]

SteamSpy_transform_data(data) ==
    [label \in DOMAIN SteamSpyKeys |->
        IF label = "tags"
        THEN IF Get(data, "tags").t = "dict"
             THEN [src |-> "steamspy", t |-> "list", v |-> "tags"]
             ELSE [src |-> "steamspy", t |-> "list", v |-> ""]
        ELSE Get(data, SteamSpyKeys[label])]

\* the dict comprehension over the filtered labels; a label that data_packed
\* lacks raises KeyError
Project(data_packed, labels) ==
    IF labels \subseteq DOMAIN data_packed
    THEN FetchReturns(SuccessResult([label \in labels |-> data_packed[label]]))
    ELSE FetchRaises("KeyError")

SteamSpy_fetch(resp, selected_labels) ==
    LET json == SteamSpyJson(resp.body) IN
    IF resp.status_code # 200
    THEN FetchReturns(_build_error_result(
            "Failed to connect to API. Status code: " \o StatusText(resp.status_code)))
    ELSE IF ~json.ok THEN FetchRaises("JSONDecodeError")
    ELSE IF json.shape # "object" THEN FetchRaises("AttributeError")
    ELSE IF ~Truthy(Get(json.obj, "name"))
    THEN FetchReturns(_build_error_result("Game with appid 12345 is not found."))
    ELSE LET data_packed == SteamSpy_transform_data(json.obj) IN
         IF TruthyList(selected_labels)
         THEN Project(data_packed,
                      Range(_filter_valid_labels(selected_labels.labels, STEAMSPY_LABELS)))
         ELSE FetchReturns(SuccessResult(data_packed))

SteamSpyCalls ==
    {[adapter |-> "steamspy", up |-> [response |-> r], selected_labels |-> s] :
        r \in MakeRequestResponses(SteamSpyBodies),
        s \in SelectedInputs("name", "steam_appid")}

\* ---- HowLongToBeat ----

\* what one requests.post of _fetch_search_results does: it raises, or returns
\* a response with this status
PostOutcomes == {"ConnectionError", "Timeout", "200", "403"}

HltbBodies ==
    {"empty", "invalid", "list", "found", "found_partial", "not_found", "no_count",
     "no_fields", "no_data", "empty_data", "entry_not_object"}

\* json.loads(search_response.text)
HltbJson(body) ==
    LET full == [t |-> "dict",
                 obj |-> [l \in HOWLONGTOBEAT_LABELS |-> Upstream("howlongtobeat", l)]]
        partial == [t |-> "dict",
                    obj |-> [l \in {"game_id", "game_name"} |-> Upstream("howlongtobeat", l)]]
        text == [t |-> "str", obj |-> NoRecord]
        object(o) == [ok |-> TRUE, shape |-> "object", obj |-> o]
    IN CASE body \in {"empty", "invalid"} -> [ok |-> FALSE, shape |-> "", obj |-> NoRecord]
         [] body = "list" -> [ok |-> TRUE, shape |-> "list", obj |-> NoRecord]
         [] body = "found" -> object([count |-> 1, data |-> <<full>>])
         [] body = "found_partial" -> object([count |-> 1, data |-> <<partial>>])
         [] body = "not_found" -> object([count |-> 0, data |-> <<>>])
         [] body = "no_count" -> object([data |-> <<full>>])
         [] body = "no_fields" -> object(NoRecord)
         [] body = "no_data" -> object([count |-> 1])
         [] body = "empty_data" -> object([count |-> 1, data |-> <<>>])
         [] body = "entry_not_object" -> object([count |-> 1, data |-> <<text>>])

\* HowLongToBeat._fetch_search_results: the exception it lets through, or the
\* response it returns (a synthetic one has status 599 and no content)
HowLongToBeat_fetch_search_results(up) ==
    LET synthetic == [raises |-> "", status_code |-> SYNTHETIC_ERROR_CODE, body |-> "empty"]
        real == [raises |-> "", status_code |-> 200, body |-> up.body]
    IN IF ~up.api_key THEN synthetic
       ELSE IF up.with_key \in TransportErrors
       THEN [raises |-> up.with_key, status_code |-> 0, body |-> "empty"]
       ELSE IF up.with_key = "200" THEN real
       ELSE IF up.with_payload \in TransportErrors
       THEN [raises |-> up.with_payload, status_code |-> 0, body |-> "empty"]
       ELSE IF up.with_payload = "200" THEN real
       ELSE synthetic

HowLongToBeat_transform_data(data) ==
    [label \in HOWLONGTOBEAT_LABELS |-> Get(data, label)]

HowLongToBeat_fetch(up, selected_labels) ==
    LET search_response == HowLongToBeat_fetch_search_results(up)
        json == HltbJson(search_response.body)
        search_result == json.obj
    IN
    IF search_response.raises # "" THEN FetchRaises(search_response.raises)
    ELSE IF ~ResponseOk(search_response) \/ search_response.body = "empty"
    THEN FetchReturns(_build_error_result("Failed to fetch data."))
    ELSE IF ~json.ok
    THEN FetchReturns(_build_error_result("Failed to parse search response."))
    ELSE IF json.shape # "object"
    THEN FetchReturns(_build_error_result("Unexpected search response format."))
    ELSE IF "count" \notin DOMAIN search_result THEN FetchRaises("KeyError")
    ELSE IF search_result.count = 0
    THEN FetchReturns(_build_error_result("Game is not found."))
    ELSE IF "data" \notin DOMAIN search_result THEN FetchRaises("KeyError")
    ELSE IF search_result.data = <<>> THEN FetchRaises("IndexError")
    ELSE IF search_result.data[1].t # "dict" THEN FetchRaises("AttributeError")
    ELSE LET data_packed == HowLongToBeat_transform_data(search_result.data[1].obj) IN
         IF TruthyList(selected_labels)
         THEN Project(data_packed,
                      Range(_filter_valid_labels(selected_labels.labels,
                                                 HOWLONGTOBEAT_LABELS)))
         ELSE FetchReturns(SuccessResult(data_packed))

HowLongToBeatCalls ==
    {[adapter |-> "howlongtobeat",
      up |-> [api_key |-> k, with_key |-> p1, with_payload |-> p2, body |-> b],
      selected_labels |-> s] :
        k \in BOOLEAN, p1 \in PostOutcomes, p2 \in {"Timeout", "200", "403"},
        b \in HltbBodies, s \in {NoSelection, Selection(<<"comp_main", "invalid_label">>)}}
    \cup
    {[adapter |-> "howlongtobeat",
      up |-> [api_key |-> TRUE, with_key |-> "200", with_payload |-> "200", body |-> b],
      selected_labels |-> s] :
        b \in {"found", "found_partial"}, s \in SelectedInputs("game_name", "comp_main")}

\* ---- SteamAchievements ----

AchievementBodies == {"invalid", "list", "achievements", "no_achievements"}

SchemaBodies == {"invalid", "schema", "empty_object"}

\* response.json() of the two SteamWeb endpoints
AchievementsJson(body) ==
    CASE body \in {"invalid", "empty"} -> [ok |-> FALSE, shape |-> "", obj |-> NoRecord]
      [] body = "list" -> [ok |-> TRUE, shape |-> "list", obj |-> NoRecord]
      [] body = "achievements" ->
           [ok |-> TRUE, shape |-> "object",
            obj |-> [achievementpercentages |-> [achievements |-> <<"ACH_1", "ACH_2">>]]]
      [] body = "schema" ->
           [ok |-> TRUE, shape |-> "object",
            obj |-> [game |-> [availableGameStats |-> [achievements |-> <<"ACH_1">>]]]]
      [] body \in {"no_achievements", "empty_object"} ->
           [ok |-> TRUE, shape |-> "object", obj |-> NoRecord]

\* SteamAchievements._fetch_schema_data
SteamAchievements_fetch_schema_data(schema) ==
    LET json == AchievementsJson(schema.body) IN
    IF schema.status_code = 403
    THEN FetchReturns(_build_error_result(
            "Access denied, verify your API Key. Status code: 403."))
    ELSE IF ~ResponseOk(schema)
    THEN FetchReturns(_build_error_result(
            "Failed to connect to API. Status code: " \o StatusText(schema.status_code) \o "."))
    ELSE IF ~json.ok THEN FetchRaises("JSONDecodeError")
    ELSE FetchReturns(SuccessResult(json.obj))

\* SteamAchievements._transform_data; schema is NoRecord when none is given
SteamAchievements_transform_data(data, schema_data) ==
    LET val(v) == [src |-> "steamachievements", t |-> "val", v |-> v]
        merged == "game" \in DOMAIN schema_data
    IN IF "achievementpercentages" \notin DOMAIN data
       THEN [achievements_count |-> NoneValue("steamachievements"),
             achievements_percentage_average |-> NoneValue("steamachievements"),
             achievements_list |-> NoneValue("steamachievements")]
       ELSE [achievements_count |-> val("count"),
             achievements_percentage_average |-> val("average"),
             achievements_list |-> IF merged THEN val("merged") ELSE val("base")]

SteamAchievements_fetch(up, selected_labels) ==
    LET json == AchievementsJson(up.response.body)
        schema_data == SteamAchievements_fetch_schema_data(up.schema)
        finish(data_packed) ==
            IF TruthyList(selected_labels)
            THEN Project(data_packed,
                         Range(_filter_valid_labels(selected_labels.labels,
                                                    STEAMACHIEVEMENT_LABELS)))
            ELSE FetchReturns(SuccessResult(data_packed))
    IN
    IF up.response.status_code # 200
    THEN FetchReturns(_build_error_result(
            "Failed to connect to API. Status code: "
                \o StatusText(up.response.status_code) \o "."))
    ELSE IF ~json.ok THEN FetchRaises("JSONDecodeError")
    ELSE IF up.api_key
    THEN IF schema_data.kind = "raised" THEN schema_data
         ELSE IF ~schema_data.result.success
         THEN FetchReturns(_build_error_result(schema_data.result.error))
         ELSE IF json.shape # "object" THEN FetchRaises("AttributeError")
         ELSE finish(SteamAchievements_transform_data(json.obj, schema_data.result.data))
    ELSE IF json.shape # "object" THEN FetchRaises("AttributeError")
    ELSE finish(SteamAchievements_transform_data(json.obj, NoRecord))

SteamAchievementsCalls ==
    {[adapter |-> "steamachievements",
      up |-> [api_key |-> k, response |-> r, schema |-> sc],
      selected_labels |-> s] :
        k \in BOOLEAN,
        r \in MakeRequestResponses({"invalid", "achievements", "no_achievements"}),
        sc \in {[status_code |-> 200, body |-> "schema"],
                [status_code |-> 200, body |-> "invalid"],
                [status_code |-> 403, body |-> "empty"],
                [status_code |-> SYNTHETIC_ERROR_CODE, body |-> "empty"]},
        s \in {NoSelection, Selection(<<>>),
               Selection(<<"achievements_list", "achievements_count", "invalid_label">>),
               Selection(<<"invalid_label">>)}}
    \cup
    {[adapter |-> "steamachievements",
      up |-> [api_key |-> FALSE, response |-> [status_code |-> 200, body |-> "list"],
              schema |-> [status_code |-> 200, body |-> "schema"]],
      selected_labels |-> NoSelection]}

\* ---- steamgamedata SteamStore ----

\* SteamStore._transform_data: the keys of the map it builds
SteamStoreKeys ==
    {"appid", "name", "type", "is_coming_soon", "release_date", "is_free",
     "price_currency", "price_initial", "price_final", "developers", "publishers",
     "platforms", "categories", "genres", "metacritic_score", "recommendations",
     "achievements", "content_rating"}

SteamStoreBodies == {"invalid", "found", "not_found", "other_appid", "unavailable_with_data"}

\* response.json() of the store API; the object is keyed by appid
SteamStoreJson(body) ==
    LET details == [k \in SteamStoreKeys |-> Upstream("steamstore", k)]
        object(o) == [ok |-> TRUE, obj |-> o]
    IN CASE body \in {"invalid", "empty"} -> [ok |-> FALSE, obj |-> NoRecord]
         [] body = "found" -> object([appid_12345 |-> [success |-> TRUE, data |-> details]])
         [] body = "not_found" -> object([appid_12345 |-> [success |-> FALSE]])
         [] body = "other_appid" -> object(NoRecord)
         [] body = "unavailable_with_data" ->
              object([appid_12345 |-> [success |-> FALSE, data |-> details]])

SteamStore_transform_data(data) == [k \in SteamStoreKeys |-> Get(data, k)]

\* steamgamedata SteamStore.fetch: the two error results are built and dropped
\* (no return), and the method goes on
SteamStore_fetch(up, selected_labels) ==
    LET json == SteamStoreJson(up.body)
        data == json.obj
    IN
    IF up.transport # "ok" THEN FetchRaises(up.transport)
    ELSE IF ~json.ok THEN FetchRaises("JSONDecodeError")
    ELSE IF "appid_12345" \notin DOMAIN data THEN FetchRaises("KeyError")
    ELSE IF "data" \notin DOMAIN data.appid_12345 THEN FetchRaises("KeyError")
    ELSE LET data_packed == SteamStore_transform_data(data.appid_12345.data) IN
         IF TruthyList(selected_labels)
         THEN Project(data_packed,
                      sgd_filter_valid_labels(selected_labels.labels, STEAM_LABELS))
         ELSE FetchReturns(SuccessResult(data_packed))

SteamStoreCalls ==
    {[adapter |-> "steamstore",
      up |-> [transport |-> tr, status_code |-> c, body |-> b],
      selected_labels |-> s] :
        tr \in {"ok", "ConnectionError"}, c \in {200, 400}, b \in SteamStoreBodies,
        s \in {NoSelection, Selection(<<"name">>)}}

\* ---- the calls ----

SteamSpyFetch ==
    /\ ft_outcome = NoRecord
    /\ ft_call \in SteamSpyCalls
    /\ ft_outcome' = SteamSpy_fetch(ft_call.up.response, ft_call.selected_labels)
    /\ UNCHANGED <<ft_call, rq_vars, co_vars, rl_vars, md_vars, mg_vars>>

HowLongToBeatFetch ==
    /\ ft_outcome = NoRecord
    /\ ft_call \in HowLongToBeatCalls
    /\ ft_outcome' = HowLongToBeat_fetch(ft_call.up, ft_call.selected_labels)
    /\ UNCHANGED <<ft_call, rq_vars, co_vars, rl_vars, md_vars, mg_vars>>

SteamAchievementsFetch ==
    /\ ft_outcome = NoRecord
    /\ ft_call \in SteamAchievementsCalls
    /\ ft_outcome' = SteamAchievements_fetch(ft_call.up, ft_call.selected_labels)
    /\ UNCHANGED <<ft_call, rq_vars, co_vars, rl_vars, md_vars, mg_vars>>

SteamStoreFetch ==
    /\ ft_outcome = NoRecord
    /\ ft_call \in SteamStoreCalls
    /\ ft_outcome' = SteamStore_fetch(ft_call.up, ft_call.selected_labels)
    /\ UNCHANGED <<ft_call, rq_vars, co_vars, rl_vars, md_vars, mg_vars>>

\* ---- BaseSource._filter_valid_labels called on its own ----

\* longest selected_labels that is explored
MaxSelected == 3

\* the vocabulary of the source: _valid_labels_set
OwnLabels == {"test_label_1", "test_label_2"}

\* frozenset(valid_labels) if valid_labels is not None else self._valid_labels_set
ValidationSet(custom) ==
    IF custom.given THEN Range(custom.labels) ELSE OwnLabels

SeqsUpTo(S, n) == UNION {[1..k -> S] : k \in 0..n}

FilterCalls ==
    {[adapter |-> "base", selected_labels |-> sel, valid_labels |-> v] :
        sel \in SeqsUpTo({"test_label_1", "test_label_2", "custom_1", "invalid"},
                         MaxSelected),
        v \in {NoSelection, Selection(<<"custom_1", "custom_2">>),
               Selection(<<"custom_1">>)}}

FilterValidLabels ==
    /\ ft_outcome = NoRecord
    /\ ft_call \in FilterCalls
    /\ ft_outcome' = FetchReturns(_filter_valid_labels(ft_call.selected_labels,
                                                       ValidationSet(ft_call.valid_labels)))
    /\ UNCHANGED <<ft_call, rq_vars, co_vars, rl_vars, md_vars, mg_vars>>

-----------------------------------------------------------------------------
(* GameDataModel built from raw records of every shape *)

\* the values a raw field is given: None, numbers, numeric and other texts,
\* dates, NaN, infinity and a list
RawValues ==
    {NoneValue("raw"), NaN("raw"),
     [src |-> "raw", t |-> "inf", v |-> ""],
     [src |-> "raw", t |-> "list", v |-> ""],
     [src |-> "raw", t |-> "str", v |-> "Not a date"],
     [src |-> "raw", t |-> "datestr", v |-> "Jan 1, 2025"],
     [src |-> "raw", t |-> "datestr", v |-> "Jan 2, 2026"],
     Number("raw", "datetime", "", 20089 * 86400),
     Number("raw", "int", "1234", 1234),
     Number("raw", "float", "1.5", 1500),
     Number("raw", "float", "0.001", 1),
     Number("raw", "float", "-1.5", -1500),
     Number("raw", "numstr", "1234", 1234000),
     Number("raw", "numstr", "12.34", 12340)}

AppidValues == {K1, Number("raw", "int", "23456", 23456), NoneValue("raw")}

\* keys of the raw record that GameDataModel does not declare
UnknownKeys == {"type", "count_speedrun"}

ProbeFields == (SchemaFields \ {"steam_appid"}) \cup UnknownKeys

\* the raw records explored: steam_appid (or none) and one more key of any
\* value, steam_appid alone, and records that give the fields the derived
\* ones are computed from
RawInputs ==
    {[k \in {"steam_appid", f} |-> IF k = f THEN val ELSE a] :
        a \in AppidValues, f \in ProbeFields, val \in RawValues}
    \cup {[k \in {f} |-> val] : f \in ProbeFields, val \in RawValues}
    \cup {[k \in {"steam_appid"} |-> a] : a \in AppidValues}
    \cup {[k \in {"steam_appid", "average_playtime_h", "average_playtime", "release_date"} |->
             CASE k = "steam_appid" -> K1
               [] k = "average_playtime_h" -> h
               [] k = "average_playtime" -> Number("raw", "int", "5", 5)
               [] k = "release_date" -> d] :
            h \in RawValues, d \in RawValues}

\* GameDataModel(**md_raw)
Validate ==
    /\ md_raw # NoRecord
    /\ md_model = NoRecord
    /\ md_model' = [raises |-> ModelRaises(md_raw),
                    model |-> GameDataModel(md_raw),
                    dump |-> NoRecord]
    /\ UNCHANGED <<md_raw, rq_vars, co_vars, rl_vars, ft_vars, mg_vars>>

\* model_dump() of the model built
ModelDump ==
    /\ md_model # NoRecord
    /\ md_model.raises = ""
    /\ md_model.dump = NoRecord
    /\ md_model' = [md_model EXCEPT !.dump = model_dump(md_model.model)]
    /\ UNCHANGED <<md_raw, rq_vars, co_vars, rl_vars, ft_vars, mg_vars>>

-----------------------------------------------------------------------------
(* The merge loop of _fetch_raw_data over the id-keyed sources in any order *)

\* the number of id-keyed sources, counted from the first, that are merged
\* in every order
MaxMerged == 3

MergedCount ==
    IF MaxMerged < Len(id_based_sources) THEN MaxMerged ELSE Len(id_based_sources)

MergedConfigs == SubSeq(id_based_sources, 1, MergedCount)

\* the orders in which the loop may visit these SourceConfigs
Orders ==
    {[i \in 1..MergedCount |-> MergedConfigs[p[i]]] :
        p \in {q \in [1..MergedCount -> 1..MergedCount] :
                 \A i, j \in 1..MergedCount : q[i] = q[j] => i = j}}

\* what each source returns for the appid, whenever it is asked
MergeResults ==
    {res \in [{MergedConfigs[i].source : i \in 1..MergedCount} ->
                UNION {FetchResults(MergedConfigs[i].source) : i \in 1..MergedCount}] :
        \A s \in DOMAIN res : res[s] \in FetchResults(s)}

\* raw_data: dict[str, Any] = {"steam_appid": str(steam_appid)}
MergeStart == [pos |-> 0, raised |-> FALSE, raw |-> [f \in {"steam_appid"} |-> Str(K1)]]

\* one pass of `for config in ...: source_data = fetch(...); if
\* source_data["success"]: raw_data.update(...)` on the merge state m
MergePass(m, config, r) ==
    IF Aborts(config, r) THEN [m EXCEPT !.pos = @ + 1, !.raised = TRUE]
    ELSE [m EXCEPT !.pos = @ + 1,
                   !.raw = IF r.kind = "success"
                           THEN Merge(@, SourceData(config.source, r), config.fields)
                           ELSE @]

\* the whole loop over the configs of order, from merge state m
RECURSIVE MergeAll(_, _, _)
MergeAll(order, results, m) ==
    IF m.raised \/ m.pos >= Len(order) THEN m
    ELSE MergeAll(order, results,
                  MergePass(m, order[m.pos + 1], results[order[m.pos + 1].source]))

\* the loop takes its next config
MergeNext ==
    /\ mg_raw_data # NoRecord
    /\ ~mg_raw_data.raised
    /\ mg_raw_data.pos < Len(mg_order)
    /\ mg_raw_data' = MergePass(mg_raw_data, mg_order[mg_raw_data.pos + 1],
                                mg_results[mg_order[mg_raw_data.pos + 1].source])
    /\ UNCHANGED <<mg_order, mg_results, rq_vars, co_vars, rl_vars, ft_vars, md_vars>>

-----------------------------------------------------------------------------
(* steamgamedata SteamReview.fetch *)

\* largest number of reviews on one page that is explored
MaxReviews == 2

\* the cursor of the first request, and the cursors the upstream hands out
Cursors == {"*", "nextcursor", "lastcursor"}

\* the JSON object of one page: "success", "cursor" ("none" for null) and
\* the number of entries of "reviews"
Pages ==
    [success : {0, 1}, cursor : Cursors \cup {"none"}, count : 0..MaxReviews]

\* page_data["reviews"] of the page requested with cursor c
Reviews(c, page) ==
    [i \in 1..page.count |->
        [recommendationid |-> <<c, i>>,
         language |-> IF i = 1 THEN "english" ELSE "tchinese"]]

\* page_data["query_summary"] of the page requested with cursor c
QuerySummary(c, page) == [num_reviews |-> page.count, total_reviews |-> page.count]

\* _transform_data(review, "review")
TransformReview(review) ==
    [recommendation_id |-> review.recommendationid,
     author_steamid |-> NoneValue("absent"),
     language |-> review.language]

\* _transform_data(query_summary, "summary")
TransformSummary(summary) ==
    [review_score |-> NoneValue("absent"),
     review_score_desc |-> NoneValue("absent"),
     total_positive |-> NoneValue("absent"),
     total_negative |-> NoneValue("absent"),
     total_reviews |-> summary.total_reviews]

\* the request cursors of a listing that starts at cursor c, up to the page
\* that answers with the cursor it was asked with; <<>> if within fuel pages
\* the listing does not end or a page carries no cursor
RECURSIVE Listing(_, _, _)
Listing(server, c, fuel) ==
    IF fuel = 0 \/ c \notin DOMAIN server THEN <<>>
    ELSE IF server[c].cursor = c THEN <<c>>
    ELSE IF Listing(server, server[c].cursor, fuel - 1) = <<>> THEN <<>>
    ELSE <<c>> \o Listing(server, server[c].cursor, fuel - 1)

\* the upstreams explored: the first page fails or carries no cursor, or the
\* listing ends after finitely many pages
Servers ==
    {server \in [Cursors -> Pages] :
        \/ server["*"].success # 1
        \/ server["*"].cursor = "none"
        \/ Listing(server, "*", Cardinality(Cursors)) # <<>>}

\* while params["cursor"] != page_data["cursor"]: the reviews of page_data
\* are appended, params["cursor"] takes the cursor of the page, and the next
\* page is fetched; asked is the cursor page was requested with
RECURSIVE ReviewLoop(_, _, _, _, _)
ReviewLoop(server, asked, cursor, page, reviews_data) ==
    IF cursor = page.cursor THEN reviews_data
    ELSE ReviewLoop(server, page.cursor, page.cursor, server[page.cursor],
             reviews_data \o [i \in 1..page.count |-> TransformReview(Reviews(asked, page)[i])])

SteamReview_fetch(server, mode) ==
    LET page_data == server["*"]
    IN IF page_data.success # 1
       THEN FetchReturns(_build_error_result("API request failed for 12345."))
       ELSE IF page_data.cursor = "none"
       THEN FetchReturns(_build_error_result(
                "Game with 12345 is not found, or error on the request's cursor."))
       ELSE IF mode = "summary"
       THEN FetchReturns(SuccessResult(TransformSummary(QuerySummary("*", page_data))))
       ELSE FetchReturns(SuccessResult(
                [reviews |-> ReviewLoop(server, "*", "*", page_data, <<>>)]))

SteamReviewCalls ==
    {[adapter |-> "steamreview", up |-> [server |-> server], mode |-> mode] :
        server \in Servers, mode \in {"summary", "review"}}

SteamReviewFetch ==
    /\ ft_outcome = NoRecord
    /\ ft_call \in SteamReviewCalls
    /\ ft_outcome' = SteamReview_fetch(ft_call.up.server, ft_call.mode)
    /\ UNCHANGED <<ft_call, rq_vars, co_vars, rl_vars, md_vars, mg_vars>>

-----------------------------------------------------------------------------
(* Specifications *)

RequestIdle ==
    /\ rq_pc = "loop"
    /\ attempts = 1
    /\ call_count = 0
    /\ sleeps = <<>>
    /\ outcomes = <<>>
    /\ response = NoResponse

CollectorIdle ==
    /\ gd_pc = "start"
    /\ idx = 1
    /\ result = <<>>
    /\ fr_pc = "idle"
    /\ src_idx = 1
    /\ raw_data = NoRecord
    /\ fetch_log = <<>>
    /\ game_data = NoRecord
    /\ status = <<>>

\* no call of a rate-limited method was made yet
RateLimitIdle ==
    /\ now = 0
    /\ reconfigs = 0
    /\ cache = NoCache
    /\ limiters = <<>>
    /\ rl_pc = [t \in rl_threads |-> "idle"]
    /\ rl_cache = [t \in rl_threads |-> NoCache]
    /\ rl_lim = [t \in rl_threads |-> 0]
    /\ rl_wake = [t \in rl_threads |-> 0]
    /\ rl_sleeps = [t \in rl_threads |-> 0]
    /\ rl_runs = [t \in rl_threads |-> 0]
    /\ rl_result = [t \in rl_threads |-> 0]
    /\ started = 0
    /\ counter = 0
    /\ admitted = <<>>
    /\ sleep_calls = <<>>
    /\ sg_admitted = <<>>
    /\ sg_sleep_calls = <<>>

\* no rate-limited method is exercised; calls and period are the defaults of
\* getattr(self, "calls", 60) and getattr(self, "period", 60)
RateLimitUnused ==
    /\ rl_threads = {}
    /\ calls = 60
    /\ period = 60
    /\ RateLimitIdle

\* no adapter fetch is exercised
FetchUnused ==
    /\ ft_call = NoRecord
    /\ ft_outcome = NoRecord

\* no model is validated
ValidateUnused ==
    /\ md_raw = NoRecord
    /\ md_model = NoRecord

\* no merge in another order is exercised
MergeUnused ==
    /\ mg_order = <<>>
    /\ mg_results = NoRecord
    /\ mg_raw_data = NoRecord

\* _make_request is called with some retries and backoff_factor
InitRequest ==
    /\ RequestIdle
    /\ retries \in RetriesInputs
    /\ backoff_factor \in BackoffFactors
    /\ CollectorIdle
    /\ steam_appids = [shape |-> "list", items |-> <<>>]
    /\ recap = FALSE
    /\ RateLimitUnused
    /\ FetchUnused
    /\ ValidateUnused
    /\ MergeUnused

NextRequest ==
    \/ RequestReturnsResponse
    \/ RequestRetry
    \/ RequestExhausted
    \/ RequestAbort
    \/ RequestUnknown
    \/ RequestPropagate
    \/ RequestLoopEnds

SpecRequest == InitRequest /\ [][NextRequest]_vars

\* get_games_data is called with some steam_appids and recap
InitCollector ==
    /\ CollectorIdle
    /\ steam_appids \in AppidInputs
    /\ recap \in BOOLEAN
    /\ RequestIdle
    /\ retries = 3
    /\ backoff_factor = 5
    /\ RateLimitUnused
    /\ FetchUnused
    /\ ValidateUnused
    /\ MergeUnused

NextCollector ==
    \/ GamesDataStart
    \/ FetchRawDataBegin
    \/ FetchIdBased
    \/ FetchNameBased
    \/ FetchRawDataReturn
    \/ GamesDataReturn

SpecCollector == InitCollector /\ [][NextCollector]_vars

\* the other parts while a rate-limited method is exercised
OthersIdle ==
    /\ RequestIdle
    /\ retries = 3
    /\ backoff_factor = 5
    /\ CollectorIdle
    /\ steam_appids = [shape |-> "list", items |-> <<>>]
    /\ recap = FALSE

\* one thread calls a method decorated with gameinsights logged_rate_limited
InitRateLimit ==
    /\ rl_threads = {1}
    /\ calls \in BudgetInputs
    /\ period \in PeriodInputs
    /\ RateLimitIdle
    /\ OthersIdle
    /\ FetchUnused
    /\ ValidateUnused
    /\ MergeUnused

NextRateLimit ==
    \/ \E t \in rl_threads : WrapperEnter(t)
    \/ \E t \in rl_threads : WrapperBuild(t)
    \/ \E t \in rl_threads : WrapperReuse(t)
    \/ \E t \in rl_threads : LimitedAdmit(t)
    \/ \E t \in rl_threads : LimitedReject(t)
    \/ \E t \in rl_threads : SleepReturns(t)
    \/ Tick
    \/ Reconfigure

SpecRateLimit == InitRateLimit /\ [][NextRateLimit]_vars

\* the same, where time passes and a call that is under way keeps running
SpecRateLimitFair ==
    /\ InitRateLimit
    /\ [][NextRateLimit]_vars
    /\ WF_vars(Tick)
    /\ WF_vars(CallStep(1))

\* two threads call the decorated method of one instance
InitThreads ==
    /\ rl_threads = {1, 2}
    /\ calls \in BudgetInputs
    /\ period \in PeriodInputs
    /\ RateLimitIdle
    /\ OthersIdle
    /\ FetchUnused
    /\ ValidateUnused
    /\ MergeUnused

SpecThreads == InitThreads /\ [][NextRateLimit]_vars

\* fetch of an adapter decorated with steamgamedata logged_rate_limited
InitSgd ==
    /\ rl_threads = {}
    /\ calls \in BudgetInputs
    /\ period \in PeriodInputs
    /\ RateLimitIdle
    /\ OthersIdle
    /\ FetchUnused
    /\ ValidateUnused
    /\ MergeUnused

NextSgd ==
    \/ SgdFetch
    \/ Tick

SpecSgd == InitSgd /\ [][NextSgd]_vars


\* fetch of one adapter is called once, with some upstream behaviour
InitFetch ==
    /\ ft_call \in SteamSpyCalls \cup HowLongToBeatCalls \cup SteamAchievementsCalls
                        \cup SteamStoreCalls
    /\ ft_outcome = NoRecord
    /\ RateLimitUnused
    /\ OthersIdle
    /\ ValidateUnused
    /\ MergeUnused

NextFetch ==
    \/ SteamSpyFetch
    \/ HowLongToBeatFetch
    \/ SteamAchievementsFetch
    \/ SteamStoreFetch

SpecFetch == InitFetch /\ [][NextFetch]_vars

\* _filter_valid_labels is called with some selected_labels and valid_labels
InitFilter ==
    /\ ft_call \in FilterCalls
    /\ ft_outcome = NoRecord
    /\ RateLimitUnused
    /\ OthersIdle
    /\ ValidateUnused
    /\ MergeUnused

NextFilter == FilterValidLabels

SpecFilter == InitFilter /\ [][NextFilter]_vars

\* GameDataModel is built from one raw record and dumped
InitValidate ==
    /\ md_raw \in RawInputs
    /\ md_model = NoRecord
    /\ RateLimitUnused
    /\ OthersIdle
    /\ FetchUnused
    /\ MergeUnused

NextValidate == Validate \/ ModelDump

SpecValidate == InitValidate /\ [][NextValidate]_vars

\* the id-keyed sources are merged in some order, each with some result
InitMerge ==
    /\ mg_order \in Orders
    /\ mg_results \in MergeResults
    /\ mg_raw_data = MergeStart
    /\ RateLimitUnused
    /\ OthersIdle
    /\ FetchUnused
    /\ ValidateUnused

NextMerge == MergeNext

SpecMerge == InitMerge /\ [][NextMerge]_vars

\* SteamReview.fetch is called once, in either mode, with some upstream
InitReview ==
    /\ ft_call \in SteamReviewCalls
    /\ ft_outcome = NoRecord
    /\ RateLimitUnused
    /\ OthersIdle
    /\ ValidateUnused
    /\ MergeUnused

NextReview == SteamReviewFetch

SpecReview == InitReview /\ [][NextReview]_vars

-----------------------------------------------------------------------------
(* Properties of BaseSource._make_request (checked under SpecRequest) *)

\* the failure classes as the specification names them
RetryableClasses == {"ConnectionError", "Timeout", "ConnectTimeout"}

FatalClasses == {"InvalidURL", "SSLError", "TooManyRedirects"}

UnknownClasses == {"ChunkedEncodingError"}

IsFailure(o, classes) == o.kind = "error" /\ o.cls \in classes

\* the first n invocations of the transport all raised a retryable error
AllRetryable(n) == \A i \in 1..n : IsFailure(outcomes[i], RetryableClasses)

LastOutcome == outcomes[Len(outcomes)]

\* C6: a transport that raises a retryable error exactly k < retries times
\* and then returns a response: _make_request keeps trying while fewer than
\* `retries` retryable failures have occurred, and returns that response
\* after k+1 invocations and k sleeps, the i-th sleep lasting
\* backoff_factor * 2^(i-1), so that the intervals never decrease.
C6_RetryThenSuccess ==
    /\ (AllRetryable(Len(outcomes)) /\ Len(outcomes) < retries) =>
          /\ rq_pc = "loop"
          /\ call_count = Len(outcomes)
          /\ Len(sleeps) = Len(outcomes)
    /\ ( /\ Len(outcomes) >= 1
         /\ LastOutcome.kind = "response"
         /\ AllRetryable(Len(outcomes) - 1)
         /\ Len(outcomes) - 1 < retries ) =>
          /\ rq_pc = "returned"
          /\ response = RealResponse(LastOutcome.status_code, Len(outcomes))
          /\ call_count = Len(outcomes)
          /\ Len(sleeps) = Len(outcomes) - 1
          /\ \A i \in DOMAIN sleeps : sleeps[i] = backoff_factor * (2 ^ (i - 1))
          /\ \A i, j \in DOMAIN sleeps : i <= j => sleeps[i] <= sleeps[j]

C6_Witness ==
    /\ rq_pc = "returned"
    /\ response.kind = "real"
    /\ Len(outcomes) = 3
    /\ AllRetryable(2)
    /\ backoff_factor = 5
    /\ sleeps = <<5, 10>>

\* C7 as stated: after k >= retries consecutive retryable failures the call
\* returns the synthetic failure after exactly `retries` sleeps.
C7_Original ==
    ( /\ rq_pc = "returned"
      /\ Len(outcomes) >= 1
      /\ AllRetryable(Len(outcomes))
      /\ Len(outcomes) >= retries ) =>
          /\ response.kind = "synthetic"
          /\ Len(sleeps) = retries

\* C7, amended: when every invocation of the transport raises a retryable
\* error, the call ends with the synthetic failure at the failure number
\* `retries` (at the first one when retries is 0), after exactly retries - 1
\* sleeps (none when retries is 0): the last failure is not followed by a sleep.
C7_SleepsBeforeExhaustion ==
    ( /\ Len(outcomes) >= 1
      /\ AllRetryable(Len(outcomes))
      /\ Len(outcomes) >= retries ) =>
          /\ rq_pc = "returned"
          /\ response.kind = "synthetic"
          /\ Len(sleeps) = (IF retries >= 1 THEN retries - 1 ELSE 0)
          /\ \A i \in DOMAIN sleeps : sleeps[i] = backoff_factor * (2 ^ (i - 1))

C7_Witness ==
    /\ rq_pc = "returned"
    /\ retries = 3
    /\ Len(outcomes) = 3
    /\ AllRetryable(3)
    /\ Len(sleeps) = 2

\* C8: given `retries` (at least one) consecutive retryable failures,
\* _make_request has invoked the transport exactly `retries` times and has
\* returned, not raised, a synthetic response with status code 599, ok False,
\* and the description of the last error as its reason.
C8_MaxRetriesSynthetic ==
    ( /\ retries >= 1
      /\ Len(outcomes) = retries
      /\ AllRetryable(retries) ) =>
          /\ rq_pc = "returned"
          /\ call_count = retries
          /\ response.kind = "synthetic"
          /\ response.status_code = 599
          /\ ~ResponseOk(response)
          /\ response.reason = [cls |-> LastOutcome.cls, n |-> retries]

C8_Witness ==
    /\ retries = 2
    /\ Len(outcomes) = 2
    /\ AllRetryable(2)
    /\ response.status_code = 599
    /\ response.reason.n = 2

\* C9 as stated: a fatal transport error (invalid URL, TLS/SSL failure,
\* redirect loop) is never retried: whenever the transport raises one,
\* _make_request returns the synthetic response at once, with no sleep and
\* no further invocation.
C9_FatalNeverRetried ==
    \A i \in DOMAIN outcomes :
        IsFailure(outcomes[i], FatalClasses) =>
            /\ i = Len(outcomes)
            /\ rq_pc = "returned"
            /\ response.kind = "synthetic"
            /\ call_count = i
            /\ Len(sleeps) = i - 1

\* C10: for retries >= 0 and transport outcomes that are responses or
\* network-layer errors (RequestException and its subclasses), _make_request
\* never raises; what it returns is the real response of the last invocation
\* or the synthetic 599 response; an unknown RequestException ends the call
\* at once with the synthetic response, without sleep or further invocation.
C10_NeverRaises ==
    ( /\ retries >= 0
      /\ \A i \in DOMAIN outcomes :
            \/ outcomes[i].kind = "response"
            \/ IsInstance(outcomes[i].cls, "RequestException") ) =>
          /\ rq_pc # "raised"
          /\ call_count <= retries + 1
          /\ rq_pc = "returned" =>
                \/ /\ response.kind = "real"
                   /\ LastOutcome.kind = "response"
                   /\ response.status_code = LastOutcome.status_code
                \/ /\ response.kind = "synthetic"
                   /\ response.status_code = 599
                   /\ LastOutcome.kind = "error"
          /\ \A i \in DOMAIN outcomes :
                IsFailure(outcomes[i], UnknownClasses) =>
                    /\ i = Len(outcomes)
                    /\ rq_pc = "returned"
                    /\ response.kind = "synthetic"
                    /\ response.reason = [cls |-> outcomes[i].cls, n |-> i]
                    /\ Len(sleeps) = i - 1

C10_Witness ==
    /\ rq_pc = "returned"
    /\ Len(outcomes) = 2
    /\ IsFailure(outcomes[1], RetryableClasses)
    /\ IsFailure(outcomes[2], UnknownClasses)
    /\ response.kind = "synthetic"

-----------------------------------------------------------------------------
(* Properties of the Collector (checked under SpecCollector) *)

\* the last call of _fetch_raw_data is over; fetch_log is its log
Completed == fr_pc = "idle" /\ Len(status) > 0

Returned == Completed /\ status[Len(status)] = "ok"

IsSuccess(e) == e.result.kind = "success"

\* every fetch so far gave a Failure, or a Success with all declared fields
ContractResults ==
    \A i \in DOMAIN fetch_log :
        \/ fetch_log[i].result.kind = "failure"
        \/ IsSuccess(fetch_log[i]) /\ fetch_log[i].result.complete

AllFailed == \A i \in DOMAIN fetch_log : fetch_log[i].result.kind = "failure"

\* the appid the last call of _fetch_raw_data was made for
LastAppid == steam_appids.items[idx - 1]

\* a usable name: a non-empty string
NonEmptyName(val) == val.t = "str" /\ val.v # ""

\* the sources in the order of their declaration, id-keyed first
DeclaredOrder ==
    [i \in 1..(Len(id_based_sources) + Len(name_based_sources)) |->
        (id_based_sources \o name_based_sources)[i].source]

C2_NameKeyedIffName ==
    /\ \A i \in DOMAIN fetch_log :
          fetch_log[i].phase = "name" =>
              /\ "name" \in DOMAIN raw_data
              /\ NonEmptyName(raw_data["name"])
              /\ fetch_log[i].key = raw_data["name"]
    /\ Returned =>
          LET fetched == {fetch_log[i].source : i \in {j \in DOMAIN fetch_log :
                                                          fetch_log[j].phase = "name"}}
          IN IF "name" \in DOMAIN raw_data /\ NonEmptyName(raw_data["name"])
             THEN fetched = {c.source : c \in Range(name_based_sources)}
             ELSE fetched = {}

C2_Witness ==
    /\ Returned
    /\ Len(fetch_log) = 7
    /\ fetch_log[7].phase = "name"
    /\ fetch_log[7].key.v = "Mock Game"

\* C3 as stated: get_games_data returns one entry per requested appid, in
\* request order; an appid whose aggregation failed is represented by a
\* minimal record holding only the key, and is not omitted.
C3_OneEntryPerAppid ==
    (gd_pc = "done" /\ ~NotAppids(steam_appids)) =>
        /\ Len(result) = Len(steam_appids.items)
        /\ \A i \in DOMAIN result :
              status[i] = "raised" =>
                  result[i] = model_dump(GameDataModel(
                                  [f \in {"steam_appid"} |-> Str(steam_appids.items[i])]))

\* C4 as stated: the raw record passed to validation has exactly the key
\* steam_appid and the declared fields of the sources that returned Success,
\* each with the value of that source's result.
C4_RawRecordFromSuccesses ==
    Returned =>
        LET succeeded == {i \in DOMAIN fetch_log : IsSuccess(fetch_log[i])}
        IN /\ DOMAIN raw_data =
                {"steam_appid"} \cup UNION {DeclaredFields(fetch_log[i].source) : i \in succeeded}
           /\ \A i \in succeeded :
                 \A f \in DeclaredFields(fetch_log[i].source) :
                     raw_data[f] = SourceData(fetch_log[i].source, fetch_log[i].result)[f]

\* C5: within one aggregation the fetches follow the declared order, each
\* source at most once and id-keyed sources before name-keyed ones; as long
\* as the sources return Success or Failure, every id-keyed source has been
\* fetched once the id-keyed phase is over.
C5_DeclaredOrderOnce ==
    /\ Len(fetch_log) <= Len(DeclaredOrder)
    /\ \A i \in DOMAIN fetch_log :
          /\ fetch_log[i].source = DeclaredOrder[i]
          /\ fetch_log[i].phase = (IF i <= Len(id_based_sources) THEN "id" ELSE "name")
    /\ (ContractResults /\ (fr_pc = "name" \/ Completed)) =>
          Len(fetch_log) >= Len(id_based_sources)

C5_Witness ==
    /\ fr_pc = "name"
    /\ Len(fetch_log) = 7
    /\ fetch_log[2].result.kind = "failure"
    /\ fetch_log[3].result.kind = "success"
    /\ fetch_log[6].result.kind = "failure"

-----------------------------------------------------------------------------
(* Properties of gameinsights logged_rate_limited (checked under SpecRateLimit, *)
(* SpecRateLimitFair and SpecThreads)                                          *)

\* the runs of the wrapped function that limiter i let through
AdmittedBy(i) == {k \in DOMAIN admitted : admitted[k].limiter = i}

\* those of them that fall into the current window of limiter i
InWindow(i) == {k \in AdmittedBy(i) : admitted[k].time >= limiters[i].last_reset}

\* thread t is between calls and its last call returned
HasReturned(t) == rl_pc[t] = "idle" /\ rl_result[t] # 0

\* C11: with a budget of C calls per period P, a call is put to sleep only
\* once C calls were let through in the current window, so C calls in rapid
\* succession on a fresh instance run without sleeping; the sleep of the next
\* call lasts for the time remaining in the window, which is when the oldest of
\* those C calls becomes P old; the wrapped function has not run before the
\* sleep, and the call that returns ran it exactly once, slept at most once
\* and returns the value of that run.
C11_BudgetThenSleep ==
    \A t \in rl_threads :
        /\ rl_pc[t] = "sleeping" =>
              LET i == rl_lim[t]
                  L == limiters[i]
              IN /\ Cardinality(InWindow(i)) = L.calls
                 /\ sleep_calls[Len(sleep_calls)] > 0
                 /\ rl_wake[t] = L.last_reset + L.period
                 /\ \E k \in InWindow(i) :
                       /\ \A j \in InWindow(i) : admitted[k].time <= admitted[j].time
                       /\ rl_wake[t] >= admitted[k].time + L.period
        /\ rl_pc[t] \in {"wrapper", "limited", "sleeping"} => rl_runs[t] = 0
        /\ HasReturned(t) =>
              /\ rl_runs[t] = 1
              /\ rl_sleeps[t] <= 1
              /\ Cardinality({k \in DOMAIN admitted :
                                /\ admitted[k].thread = t
                                /\ admitted[k].value = rl_result[t]}) = 1

\* C calls at time 0 ran without a sleep, the next call slept for the whole
\* period, ran the function once and returned
C11_Witness ==
    /\ calls = 2
    /\ Len(limiters) = 1
    /\ HasReturned(1)
    /\ rl_sleeps[1] = 1
    /\ rl_runs[1] = 1
    /\ sleep_calls = <<period>>
    /\ Len(admitted) = calls + 1
    /\ \A k \in 1..calls : admitted[k].time = 0
    /\ admitted[calls + 1].time >= period
    /\ rl_result[1] = calls + 1

\* C12: for each limiter, at every moment, the number of runs it let through
\* that are younger than its period is at most its budget (a rolling window).
C12_RollingWindow ==
    \A i \in DOMAIN limiters :
        Cardinality({k \in AdmittedBy(i) : now - admitted[k].time < limiters[i].period})
            <= limiters[i].calls

\* C13: a limiter is built only when the cache is missing or the resolved
\* calls / period differ from those it was built for, and the cache holds the
\* limiter built last; every run of the wrapped function was let through by a
\* limiter built for the calls / period in force at that call; and a limiter
\* counts in its window only the runs it let through itself, none of those let
\* through under an earlier configuration.
C13_LimiterPerConfiguration ==
    /\ \A i \in DOMAIN limiters :
          i < Len(limiters) =>
              <<limiters[i].calls, limiters[i].period>>
                  # <<limiters[i + 1].calls, limiters[i + 1].period>>
    /\ cache # NoCache =>
          /\ cache.limited = Len(limiters)
          /\ cache.calls = limiters[cache.limited].calls
          /\ cache.period = limiters[cache.limited].period
    /\ \A k \in DOMAIN admitted :
          /\ limiters[admitted[k].limiter].calls = admitted[k].calls
          /\ limiters[admitted[k].limiter].period = admitted[k].period
    /\ \A i \in DOMAIN limiters :
          Cardinality(InWindow(i))
              = IF limiters[i].num_calls > limiters[i].clamped_calls
                THEN limiters[i].clamped_calls ELSE limiters[i].num_calls

\* the budget of the first configuration was used up and its window was still
\* open when a call under the second configuration ran without sleeping
C13_Witness ==
    /\ Len(limiters) = 2
    /\ limiters[1].num_calls >= limiters[1].clamped_calls
    /\ \E k \in AdmittedBy(2) :
          /\ admitted[k].time < limiters[1].last_reset + limiters[1].period
          /\ admitted[k].epoch = 1
    /\ sleep_calls = <<>>
    /\ started >= 3
    /\ HasReturned(1)

\* C14: whatever the interleaving of the threads, the runs of the wrapped
\* function since the last change of calls / period that fall into the current
\* window of the cached limiter are at most the budget.
C14_AdmissionSerialized ==
    cache # NoCache =>
        LET L == limiters[cache.limited]
        IN Cardinality({k \in DOMAIN admitted :
                           /\ admitted[k].epoch = reconfigs
                           /\ admitted[k].time >= L.last_reset}) <= L.clamped_calls

\* C15: a single sequential caller never sleeps more than once in a call, and
\* every call that is under way eventually returns, having run the wrapped
\* function once.
C15_EventuallyReturns ==
    /\ [](rl_sleeps[1] <= 1)
    /\ (rl_pc[1] # "idle") ~> (HasReturned(1) /\ rl_runs[1] = 1)

\* a call was rejected part-way through the window, slept for the rest of it
\* and returned
C15_Witness ==
    /\ HasReturned(1)
    /\ rl_sleeps[1] = 1
    /\ sleep_calls # <<>>
    /\ sleep_calls[Len(sleep_calls)] < period
    /\ sleep_calls[Len(sleep_calls)] > 0
    /\ reconfigs = 0

-----------------------------------------------------------------------------
(* Properties of steamgamedata logged_rate_limited (checked under SpecSgd) *)

\* C18: once `calls` fetches ran within one period, a further fetch waits:
\* every fetch that runs is preceded by fewer than `calls` fetches that ran
\* less than `period` before it.
C18_SgdRateLimited ==
    \A k \in DOMAIN sg_admitted :
        Cardinality({j \in DOMAIN sg_admitted :
                        j < k /\ sg_admitted[k] - sg_admitted[j] < period}) < calls

-----------------------------------------------------------------------------
(* Properties of the adapters' fetch (checked under SpecFetch) *)

FetchDone == ft_outcome # NoRecord

\* fetch returned an ErrorResult that carries a reason
ReturnedFailure ==
    /\ ft_outcome.kind = "returned"
    /\ ~ft_outcome.result.success
    /\ ft_outcome.result.error # ""

ReturnedSuccess == ft_outcome.kind = "returned" /\ ft_outcome.result.success

\* the search of HowLongToBeat got as far as a response with status 200
HltbBodyReached ==
    /\ ft_call.up.api_key
    /\ \/ ft_call.up.with_key = "200"
       \/ ft_call.up.with_key = "403" /\ ft_call.up.with_payload = "200"

\* the failures of the search: the transport raises, both requests return a
\* status other than 200, or the payload is empty, not JSON, not an object,
\* without "count", or without an entry in "data"
HltbFailure ==
    \/ /\ ft_call.up.api_key
       /\ \/ ft_call.up.with_key \in {"ConnectionError", "Timeout"}
          \/ /\ ft_call.up.with_key = "403"
             /\ ft_call.up.with_payload \in {"Timeout", "403"}
    \/ /\ HltbBodyReached
       /\ ft_call.up.body \in {"empty", "invalid", "list", "no_count", "no_fields",
                               "empty_data"}

\* C16: when the search of HowLongToBeat fails (transport failure, status
\* other than 200, missing or ill-shaped payload), fetch does not raise: it
\* returns a Failure result with a reason.
C16_HowLongToBeatNeverRaises ==
    (ft_call \in HowLongToBeatCalls /\ FetchDone /\ HltbFailure) => ReturnedFailure

\* C17: when the response status is not 200, or the payload lacks the appid or
\* marks it success: false, SteamStore.fetch returns a Failure result: it
\* neither raises nor returns a Success.
C17_SteamStoreFailure ==
    (/\ ft_call \in SteamStoreCalls
     /\ FetchDone
     /\ ft_call.up.transport = "ok"
     /\ \/ ft_call.up.status_code # 200
        \/ ft_call.up.body \in {"not_found", "other_appid", "unavailable_with_data"})
        => ReturnedFailure

GameinsightsCalls == SteamSpyCalls \cup HowLongToBeatCalls \cup SteamAchievementsCalls

\* C19: every result that fetch of SteamSpy, HowLongToBeat or
\* SteamAchievements returns is exactly one variant: success True with a data
\* map and no error key, or success False with an error string and no data key.
C19_ExactlyOneVariant ==
    (ft_call \in GameinsightsCalls /\ FetchDone /\ ft_outcome.kind = "returned") =>
        LET r == ft_outcome.result
        IN \/ DOMAIN r = {"success", "data"} /\ r.success
           \/ DOMAIN r = {"success", "error"} /\ ~r.success /\ r.error # ""

\* the error of the schema request of SteamAchievements is handed on
C19_Witness ==
    /\ ft_call \in SteamAchievementsCalls
    /\ ft_call.up.api_key
    /\ ft_call.up.response.status_code = 200
    /\ ft_call.up.schema.status_code = 403
    /\ FetchDone
    /\ ft_outcome.kind = "returned"
    /\ DOMAIN ft_outcome.result = {"success", "error"}
    /\ ft_outcome.result.error = "Access denied, verify your API Key. Status code: 403."

\* C20: the data map of a successful fetch of SteamSpy, HowLongToBeat or
\* SteamAchievements has the whole vocabulary of the adapter as its keys when
\* selected_labels is None or an empty list, and exactly the selected labels
\* that are valid otherwise.
C20_SelectedLabelsProjection ==
    (ft_call \in GameinsightsCalls /\ FetchDone /\ ReturnedSuccess) =>
        DOMAIN ft_outcome.result.data
            = IF ~ft_call.selected_labels.given \/ ft_call.selected_labels.labels = <<>>
              THEN valid_labels(ft_call.adapter)
              ELSE Range(ft_call.selected_labels.labels) \cap valid_labels(ft_call.adapter)

\* SteamSpy is asked for two valid labels and an invalid one
C20_Witness ==
    /\ ft_call \in SteamSpyCalls
    /\ ft_call.selected_labels = Selection(<<"steam_appid", "name", "invalid_label">>)
    /\ FetchDone
    /\ ReturnedSuccess
    /\ DOMAIN ft_outcome.result.data = {"name", "steam_appid"}

-----------------------------------------------------------------------------
(* Properties of BaseSource._filter_valid_labels (checked under SpecFilter) *)

\* the positions of selected_labels that hold a label of the validation set
KeptPositions ==
    {i \in DOMAIN ft_call.selected_labels :
        ft_call.selected_labels[i] \in (IF ft_call.valid_labels.given
                                        THEN Range(ft_call.valid_labels.labels)
                                        ELSE {"test_label_1", "test_label_2"})}

\* C21: _filter_valid_labels returns the entries of selected that are in valid
\* (the vocabulary of the source when valid is None), each once per
\* occurrence and in the order of selected; an empty selected gives the empty
\* list.
C21_FilterKeepsValidInOrder ==
    (ft_call \in FilterCalls /\ FetchDone) =>
        LET out == ft_outcome.result
        IN /\ ft_outcome.kind = "returned"
           /\ Len(out) = Cardinality(KeptPositions)
           /\ \A i \in KeptPositions :
                 out[Cardinality({j \in KeptPositions : j <= i})]
                     = ft_call.selected_labels[i]
           /\ ft_call.selected_labels = <<>> => out = <<>>

\* the order of selected is kept, not that of the vocabulary
C21_Witness ==
    /\ ft_call \in FilterCalls
    /\ ft_call.selected_labels = <<"test_label_2", "invalid", "test_label_1">>
    /\ ~ft_call.valid_labels.given
    /\ FetchDone
    /\ ft_outcome.result = <<"test_label_2", "test_label_1">>

-----------------------------------------------------------------------------
(* Properties of GameDataModel (checked under SpecValidate) *)

Validated_Done == md_model # NoRecord

\* the fields annotated int | None or float
NumericFields == IntegerFields \cup PlainIntFields \cup FloatFields

\* a scalar that is no number: a text, a list, NaN, infinity
Malformed(val) == val.t \in {"str", "list", "nan", "inf"}

Sentinel(f) == IF f \in FloatFields THEN "nan" ELSE "none"

\* C22: validation is total on numeric fields: given steam_appid and a
\* malformed scalar in an integer or float field, GameDataModel returns a
\* record with that field at its sentinel (None for an integer field, NaN for
\* a float field) and does not raise; without steam_appid it raises a
\* validation error.
C22_CoercionTotal ==
    Validated_Done =>
        /\ \A f \in NumericFields :
              (DOMAIN md_raw = {"steam_appid", f} /\ Malformed(md_raw[f])) =>
                  /\ md_model.raises = ""
                  /\ md_model.model[f].t = Sentinel(f)
        /\ "steam_appid" \notin DOMAIN md_raw => md_model.raises # ""

Dumped == Validated_Done /\ md_model.raises = "" /\ md_model.dump # NoRecord

\* C23: the output schema is stable: for every raw record that validates,
\* model_dump() has the same key set, the 50 fields of GameDataModel that are
\* not excluded, whatever the raw record gives or leaves out; a raw key that
\* is no schema field adds no key.
C23_StableSchema ==
    Dumped =>
        /\ DOMAIN md_model.dump = SchemaFields \ ExcludedFields
        /\ Cardinality(DOMAIN md_model.dump) = 50
        /\ DOMAIN md_model.dump \cap UnknownKeys = {}

C23_Witness ==
    /\ Dumped
    /\ DOMAIN md_raw = {"steam_appid", "type"}
    /\ "owners" \in DOMAIN md_model.dump
    /\ "average_playtime_h" \notin DOMAIN md_model.dump

\* C24: the derived fields are computed after all raw fields are assigned,
\* from fields of the same record: average_playtime is
\* int(average_playtime_h * 3600) when average_playtime_h is a number,
\* whatever the raw record gave for average_playtime, and stays None when it
\* is not and none was given; days_since_release is the number of whole days
\* from release_date to now when release_date holds a date, and stays None when
\* it holds none.
C24_DerivedFields ==
    (Validated_Done /\ md_model.raises = "") =>
        LET m == md_model.model
            h == m["average_playtime_h"]
            d == m["release_date"]
            days == m["days_since_release"]
        IN /\ h.t = "float" =>
                 m["average_playtime"] = Number("derived", "int", "", Seconds(h.n))
           /\ (h.t # "float" /\ "average_playtime" \notin DOMAIN md_raw) =>
                 m["average_playtime"].t = "none"
           /\ d.t = "datetime" =>
                 /\ days.t = "int"
                 /\ days.n * 86400 <= Now - d.n
                 /\ Now - d.n < (days.n + 1) * 86400
           /\ (d.t # "datetime" /\ "days_since_release" \notin DOMAIN md_raw) =>
                 days.t = "none"

C24_Witness ==
    /\ Validated_Done
    /\ md_model.raises = ""
    /\ {"average_playtime", "average_playtime_h", "release_date"} \subseteq DOMAIN md_raw
    /\ md_raw["average_playtime_h"] = Number("raw", "int", "1234", 1234)
    /\ md_raw["release_date"].v = "Jan 1, 2025"
    /\ md_model.model["average_playtime"].n = 4442400
    /\ md_model.model["days_since_release"].n = 365

-----------------------------------------------------------------------------
(* Properties of the Collector's configuration and of failing sources       *)
(* (checked under SpecCollector)                                            *)

AllConfigs == Range(id_based_sources \o name_based_sources)

\* the fetches of the last call of _fetch_raw_data whose Success wrote field f
Writers(f) ==
    {i \in DOMAIN fetch_log :
        IsSuccess(fetch_log[i]) /\ f \in DeclaredFields(fetch_log[i].source)}

\* C25: the declared field sets of all SourceConfigs, id-keyed and name-keyed
\* together, are pairwise disjoint, so that no field of the merged record is
\* written by more than one source during a call.
C25_DeclaredFieldsDisjoint ==
    Returned =>
        /\ \A c1, c2 \in AllConfigs :
              c1.source # c2.source => Range(c1.fields) \cap Range(c2.fields) = {}
        /\ \A f \in DOMAIN raw_data : Cardinality(Writers(f)) <= 1

\* C30: every field name declared in a SourceConfig is a field of
\* GameDataModel, so every key of the raw record a call has merged is a field
\* of the validated record and none is dropped as an unknown key.
C30_DeclaredFieldsInSchema ==
    Returned =>
        /\ \A c \in AllConfigs : Range(c.fields) \subseteq SchemaFields
        /\ DOMAIN raw_data \subseteq DOMAIN game_data

\* the record of an appid for which no source gave data
KeyRecord(appid) ==
    [f \in SchemaFields |->
        IF f = "steam_appid" THEN [src |-> "caller", t |-> "str", v |-> appid.v]
        ELSE FieldDefault(f)]

Payload(rec) == IF recap THEN get_recap(rec) ELSE model_dump(rec)

\* an entry of the result that holds no value of any source
NoSourceData(entry) == \A f \in DOMAIN entry : entry[f].src \in {"caller", "default"}

LastIncomplete ==
    /\ fetch_log # <<>>
    /\ IsSuccess(fetch_log[Len(fetch_log)])
    /\ ~fetch_log[Len(fetch_log)].result.complete

\* C29: when a source returns a Success whose data lacks a field declared
\* for it, _fetch_raw_data raises and builds no record, whatever was merged
\* before; get_games_data adds no entry for that appid and goes on with the
\* next appid.
C29_MissingFieldDropsAppid ==
    (Completed /\ LastIncomplete) =>
        /\ status[Len(status)] = "raised"
        /\ game_data = NoRecord
        /\ Len(result) = Cardinality({i \in DOMAIN status : status[i] = "ok"})
        /\ idx = Len(status) + 1
        /\ (gd_pc = "loop" /\ idx <= Len(steam_appids.items)) => ENABLED FetchRawDataBegin

C29_Witness ==
    /\ Completed
    /\ LastIncomplete
    /\ Len(fetch_log) = 2
    /\ IsSuccess(fetch_log[1])
    /\ status = <<"ok", "raised">>
    /\ Len(result) = 1
    /\ gd_pc = "loop"

-----------------------------------------------------------------------------
(* Properties of the merge (checked under SpecMerge) *)

MergeFinished ==
    /\ mg_raw_data # NoRecord
    /\ mg_raw_data.raised \/ mg_raw_data.pos = Len(mg_order)

DisjointFields(order) ==
    \A i, j \in DOMAIN order :
        i # j => Range(order[i].fields) \cap Range(order[j].fields) = {}

\* C26: merging is order-independent: for id-keyed sources with pairwise
\* disjoint declared field sets, the loop run in any order ends as it does in
\* the declared order for the same results of the sources: it raises in
\* both or in neither, and yields the same raw record.
C26_MergeOrderIndependent ==
    (MergeFinished /\ DisjointFields(mg_order)) =>
        LET declared == MergeAll(MergedConfigs, mg_results, MergeStart)
        IN /\ mg_raw_data.raised = declared.raised
           /\ ~declared.raised => mg_raw_data.raw = declared.raw

C26_Witness ==
    /\ MergeFinished
    /\ ~mg_raw_data.raised
    /\ mg_order[1].source = "steamspy"
    /\ mg_order[2].source = "steamstore"
    /\ \A s \in DOMAIN mg_results : mg_results[s].kind = "success"
    /\ mg_raw_data.raw["ccu"].src = "steamspy"
    /\ mg_raw_data.raw["steam_appid"].src = "steamstore"

-----------------------------------------------------------------------------
(* Properties of SteamReview.fetch (checked under SpecReview) *)

\* the reviews of the pages requested with the cursors of cs, in that order
RECURSIVE ReviewsOf(_, _)
ReviewsOf(server, cs) ==
    IF cs = <<>> THEN <<>>
    ELSE [i \in 1..server[Head(cs)].count |->
             TransformReview(Reviews(Head(cs), server[Head(cs)])[i])]
         \o ReviewsOf(server, Tail(cs))

\* C27: in review mode SteamReview.fetch returns every review of every page
\* it fetched: it follows the cursor from page to page, and the reviews of
\* the result are the reviews of all fetched pages, concatenated in the
\* order of the pages.
C27_AllFetchedReviews ==
    (/\ ft_call \in SteamReviewCalls
     /\ ft_call.mode = "review"
     /\ ft_outcome # NoRecord
     /\ ft_call.up.server["*"].success = 1
     /\ ft_call.up.server["*"].cursor # "none")
        => /\ ft_outcome.kind = "returned"
           /\ ft_outcome.result.success
           /\ ft_outcome.result.data.reviews =
                 ReviewsOf(ft_call.up.server,
                           Listing(ft_call.up.server, "*", Cardinality(Cursors)))

=============================================================================
